---- MODULE Spec2Model ----
(***************************************************************************)
(* A model of coreason_etl_pmda: the adverse-event reconstruction          *)
(* (transform_jader_gold), the approvals normalisation and reference       *)
(* bridge, and the layer orchestrator (PipelineOrchestrator).              *)
(*                                                                         *)
(* Data representation.  A Python str is a sequence of characters, each    *)
(* character a one-character string; a code point outside ASCII is the     *)
(* token "U+XXXX".  Python's None is NULL.  A polars DataFrame is a        *)
(* record [columns, rows]: the set of its column names and the sequence of *)
(* its rows, each row a function from the column names to cell values.     *)
(* The order of the columns is not modelled; the order polars gives the    *)
(* rows of a join is left-major here, and no property below reads it.      *)
(***************************************************************************)
EXTENDS Integers, Sequences, FiniteSets, TLC

VARIABLES
    demo_df, drug_df, reac_df,   \* arguments of transform_jader_gold
    jader_pc,                    \* "input", "gold" (root module ran), "pkg" (package module ran)
    jader_out,                   \* what the call returned: [raised, df]
    store,          \* the DuckDB file: table name -> [exists, df]
    api_key,        \* is DEEPSEEK_API_KEY set in the environment
    run,            \* how many times run_full_pipeline has been called
    pc,             \* where the current run is
    raised,         \* the exception propagating out of the run, or NoError
    con,            \* the orchestrator's self.con: "open" or "closed"
    trace,          \* the stage calls of the run, as they start and end
    written,        \* the tables _write_table has replaced in this run
    write_errors,   \* the tables whose _write_table raised in this run
    api_replies,    \* what the translation service answered in this run
    faults,         \* how many write failures have happened so far
    bronze_changes, \* how many raw tables the ingestions have replaced so far
    prev,           \* the raw and curated tables, replies and write errors of the last run
    requests,       \* how many requests call_deepseek has posted in this run
    lookup,         \* the batch of _run_silver_approvals after the reference lookup
    ingestion,      \* how run_bronze_pipeline ended in this run: "returned" or "caught"
    unit_call,      \* a transformation called on its own: [fn, args]
    unit_out,       \* what that call returned: [done, raised, df, text]
    attempts,       \* what each attempt of a fetch_url call came to, in order
    fetch_out,      \* how the fetch_url call ended: [state, response, error]
    seen_ids,       \* the list "seen_ids" of the approvals source's state
    src_run,        \* how many times approvals_source has been run
    src_pc,         \* "idle" or "running": is the generator being iterated
    page,           \* the records of the listing the generator has not reached yet
    seen_ids_set,   \* the generator's seen_ids_set
    new_ids,        \* the generator's new_ids
    handled,        \* every record the generator has reached: [run, id, out], out "yield" or "skip"
    completed       \* the runs in which the generator was exhausted

jvars == <<demo_df, drug_df, reac_df, jader_pc, jader_out>>
ovars == <<store, api_key, run, pc, raised, con, trace, written, write_errors,
           api_replies, faults, bronze_changes, prev, requests, lookup, ingestion>>
uvars == <<unit_call, unit_out>>
svars == <<attempts, fetch_out>>
avars == <<seen_ids, src_run, src_pc, page, seen_ids_set, new_ids, handled, completed>>
vars == <<jvars, ovars, uvars, svars, avars>>

----------------------------------------------------------------------------
(* Values *)

NULL == <<"None">>

NoError == "no error"

NoDF == [columns |-> {}, rows |-> <<>>]

Returned(df) == [raised |-> NoError, df |-> df]

Raised(e) == [raised |-> e, df |-> NoDF]

\* the tables of the three schemas pmda_bronze, pmda_silver, pmda_gold
BronzeTables == {"bronze_approvals", "bronze_ref_jan_inn", "bronze_jader_demo",
                 "bronze_jader_drug", "bronze_jader_reac"}
SilverTables == {"silver_approvals", "silver_jader_demo", "silver_jader_drug",
                 "silver_jader_reac"}
GoldTables == {"pmda_approvals", "pmda_adverse_events"}
Tables == BronzeTables \cup SilverTables \cup GoldTables

\* a table the store does not have, and one it has
Absent == [exists |-> FALSE, df |-> NoDF]
Table(df) == [exists |-> TRUE, df |-> df]

NoRun == [ended |-> FALSE, bronze |-> [t \in BronzeTables |-> Absent],
          gold |-> [t \in GoldTables |-> Absent], replies |-> <<>>,
          write_errors |-> {}]

\* _run_silver_approvals does nothing: a raw table cannot be read, or the
\* listing is empty
NotRun == [skipped |-> TRUE, raised |-> NoError, df |-> NoDF]

\* the orchestrator is not part of the behaviours that call the
\* reconstruction directly, and the other way round
OrchestratorOff ==
    /\ store = [t \in Tables |-> Absent]
    /\ api_key = FALSE
    /\ run = 0
    /\ pc = "off"
    /\ raised = NoError
    /\ con = "closed"
    /\ trace = <<>>
    /\ written = {}
    /\ write_errors = {}
    /\ api_replies = <<>>
    /\ faults = 0
    /\ bronze_changes = 0
    /\ prev = NoRun
    /\ requests = 0
    /\ lookup = NotRun
    /\ ingestion = "none"

\* no exception
NoException == [kind |-> "none", status |-> 0]

\* no fetch_url call is being made
FetchOff ==
    /\ attempts = <<>>
    /\ fetch_out = [state |-> "off", response |-> 0, error |-> NoException]

\* the approvals source is not being run
SourceOff ==
    /\ seen_ids = <<>>
    /\ src_run = 0
    /\ src_pc = "off"
    /\ page = <<>>
    /\ seen_ids_set = {}
    /\ new_ids = <<>>
    /\ handled = <<>>
    /\ completed = {}

JaderOff ==
    /\ demo_df = NoDF
    /\ drug_df = NoDF
    /\ reac_df = NoDF
    /\ jader_pc = "off"
    /\ jader_out = Returned(NoDF)

\* a transformation called on its own has not returned yet; when it has,
\* unit_out holds the exception or the frame it returned, or the text for a
\* function on strings
Pending == [done |-> FALSE, raised |-> NoError, df |-> NoDF, text |-> NULL]

\* a call of the function fn: its string argument, its frame arguments, and
\* for a date the era, the era year, the month and the day that were spelled
UnitCall(fn, text, df, jan, date) ==
    [fn |-> fn, text |-> text, df |-> df, jan |-> jan, date |-> date]

NoDate ==
    [family |-> "none", era |-> "none", era_year |-> 0, gannen |-> FALSE, month |-> 0, day |-> 0]

\* no transformation is being called on its own
UnitsOff ==
    /\ unit_call = UnitCall("none", NULL, NoDF, NoDF, NoDate)
    /\ unit_out = Pending

\* column names of the refined case tables
JaderCol ==
    [id |->
        <<"i", "d">>,
     sex |->
        <<"s", "e", "x">>,
     age |->
        <<"a", "g", "e">>,
     reporting_year |->
        <<"r", "e", "p", "o", "r", "t", "i", "n", "g", "_", "y", "e", "a", "r">>,
     drug_name |->
        <<"d", "r", "u", "g", "_", "n", "a", "m", "e">>,
     characterization |->
        <<"c", "h", "a", "r", "a", "c", "t", "e", "r", "i", "z", "a", "t", "i", "o", "n">>,
     reaction |->
        <<"r", "e", "a", "c", "t", "i", "o", "n">>]

\* column names of pmda_adverse_events (with reporting_year)
EventCol ==
    [case_id |->
        <<"c", "a", "s", "e", "_", "i", "d">>,
     patient_sex |->
        <<"p", "a", "t", "i", "e", "n", "t", "_", "s", "e", "x">>,
     patient_age_group |->
        <<"p", "a", "t", "i", "e", "n", "t", "_", "a", "g", "e", "_", "g", "r", "o", "u", "p">>,
     primary_suspect_drug |->
        <<"p", "r", "i", "m", "a", "r", "y", "_", "s", "u", "s", "p", "e", "c", "t", "_", "d", "r", "u", "g">>,
     reaction_pt |->
        <<"r", "e", "a", "c", "t", "i", "o", "n", "_", "p", "t">>]

Suspected == <<"S", "u", "s", "p", "e", "c", "t", "e", "d">>
Concomitant == <<"C", "o", "n", "c", "o", "m", "i", "t", "a", "n", "t">>

----------------------------------------------------------------------------
(* utils_text.py *)

\* the characters str.strip() and the pattern \s take for whitespace
IsSpace(c) == c \in {" ", "\t", "\n", "U+3000"}

\* unicodedata.normalize("NFKC", .) on one character: full-width Latin letters
\* and digits fold to ASCII, the ideographic space to a space, half-width
\* katakana to full-width
NFKCChar(c) ==
    CASE c = "U+FF21" -> "A"  [] c = "U+FF22" -> "B"
      [] c = "U+FF32" -> "R"  [] c = "U+FF11" -> "1"
      [] c = "U+FF12" -> "2"  [] c = "U+FF15" -> "5"
      [] c = "U+3000" -> " "
      [] c = "U+FF71" -> "U+30A2"   \* half-width A
      [] c = "U+FF76" -> "U+30AB"   \* half-width KA
      [] c = "U+FF9E" -> "U+3099"   \* half-width voiced sound mark
      [] OTHER -> c

RECURSIVE NFKCCompose(_)
\* canonical composition: KA followed by the voiced sound mark is GA
NFKCCompose(t) ==
    IF Len(t) < 2 THEN t
    ELSE IF t[1] = "U+30AB" /\ t[2] = "U+3099"
         THEN <<"U+30AC">> \o NFKCCompose(SubSeq(t, 3, Len(t)))
         ELSE <<t[1]>> \o NFKCCompose(Tail(t))

NFKC(t) == NFKCCompose([i \in 1..Len(t) |-> NFKCChar(t[i])])

RECURSIVE LStrip(_)
LStrip(t) == IF t # <<>> /\ IsSpace(Head(t)) THEN LStrip(Tail(t)) ELSE t

RECURSIVE RStrip(_)
RStrip(t) == IF t # <<>> /\ IsSpace(t[Len(t)]) THEN RStrip(SubSeq(t, 1, Len(t) - 1)) ELSE t

\* str.strip()
Strip(t) == RStrip(LStrip(t))

\* normalize_text on a str or None (the bytes branch is not used by the
\* transformations)
normalize_text(text) == IF text = NULL THEN NULL ELSE Strip(NFKC(text))

----------------------------------------------------------------------------
(* utils_date.py *)

\* a table with the start of Showa one year early
ERA_START_YEARS_early(era) ==
    CASE era = "Reiwa" -> 2019
      [] era = "Heisei" -> 1989
      [] era = "Showa" -> 1925
      [] era = "Taisho" -> 1912
      [] era = "Meiji" -> 1868

ERA_START_YEARS(era) ==
    CASE era = "Reiwa" -> 2019
      [] era = "Heisei" -> 1989
      [] era = "Showa" -> 1926
      [] era = "Taisho" -> 1912
      [] era = "Meiji" -> 1868

\* \d of a str pattern: the ASCII and the full-width digits
DigitValue(c) ==
    CASE c = "0" -> 0 [] c = "1" -> 1 [] c = "2" -> 2 [] c = "3" -> 3 [] c = "4" -> 4
      [] c = "5" -> 5 [] c = "6" -> 6 [] c = "7" -> 7 [] c = "8" -> 8 [] c = "9" -> 9
      [] c = "U+FF10" -> 0 [] c = "U+FF11" -> 1 [] c = "U+FF12" -> 2 [] c = "U+FF13" -> 3
      [] c = "U+FF14" -> 4 [] c = "U+FF15" -> 5 [] c = "U+FF16" -> 6 [] c = "U+FF17" -> 7
      [] c = "U+FF18" -> 8 [] c = "U+FF19" -> 9
      [] OTHER -> -1

IsDigit(c) == DigitValue(c) >= 0

\* str.lower() on the letters the patterns use
LowerChar(c) ==
    CASE c = "R" -> "r" [] c = "H" -> "h" [] c = "S" -> "s" [] c = "T" -> "t"
      [] c = "M" -> "m" [] c = "G" -> "g" [] c = "A" -> "a" [] c = "E" -> "e"
      [] c = "I" -> "i" [] c = "N" -> "n" [] c = "O" -> "o" [] c = "W" -> "w"
      [] c = "J" -> "j" [] c = "Y" -> "y"
      [] OTHER -> c

\* does the literal word w (lower case) match at position p of t, ignoring case
MatchesAt(t, p, w) ==
    /\ p + Len(w) - 1 <= Len(t)
    /\ \A i \in 1..Len(w) : LowerChar(t[p + i - 1]) = w[i]

\* the alternatives of era_pattern, in the order the pattern tries them
EraAlternatives ==
    << <<"r", "e", "i", "w", "a">>, <<"h", "e", "i", "s", "e", "i">>,
       <<"s", "h", "o", "w", "a">>, <<"t", "a", "i", "s", "h", "o">>,
       <<"m", "e", "i", "j", "i">>, <<"r">>, <<"h">>, <<"s">>, <<"t">>, <<"m">> >>

RECURSIVE SkipSpaces(_, _)
\* the position after \s* from position p
SkipSpaces(t, p) == IF p <= Len(t) /\ IsSpace(t[p]) THEN SkipSpaces(t, p + 1) ELSE p

RECURSIVE SkipDigits(_, _)
\* the position after \d* from position p
SkipDigits(t, p) == IF p <= Len(t) /\ IsDigit(t[p]) THEN SkipDigits(t, p + 1) ELSE p

\* year_pattern at position p: the position after it, or 0 when it does not match
YearEnd(t, p) ==
    IF SkipDigits(t, p) > p THEN SkipDigits(t, p)
    ELSE IF MatchesAt(t, p, <<"g", "a", "n", "n", "e", "n">>) THEN p + 6
    ELSE 0

\* era_pattern \s* year_pattern tried at position p with alternative k:
\* [era, year_from, end], end = 0 when it does not match
TryEra(t, p, k) ==
    LET w == EraAlternatives[k]
        q == SkipSpaces(t, p + Len(w))
    IN  IF MatchesAt(t, p, w) /\ YearEnd(t, q) > 0
        THEN [era |-> w, year_from |-> q, end |-> YearEnd(t, q)]
        ELSE [era |-> w, year_from |-> 0, end |-> 0]

\* the first alternative, from the k-th on, that matches at position p;
\* 0 when none does
RECURSIVE FirstAlternative(_, _, _)
FirstAlternative(t, p, k) ==
    IF k > Len(EraAlternatives) THEN 0
    ELSE IF TryEra(t, p, k).end > 0 THEN k
    ELSE FirstAlternative(t, p, k + 1)

\* re.search: the leftmost position, and there the first alternative, that match
RECURSIVE SearchFrom(_, _)
SearchFrom(t, p) ==
    IF p > Len(t) THEN [era |-> <<>>, year_from |-> 0, end |-> 0]
    ELSE IF FirstAlternative(t, p, 1) > 0 THEN TryEra(t, p, FirstAlternative(t, p, 1))
    ELSE SearchFrom(t, p + 1)

RECURSIVE ParseInt(_)
\* int() of a run of digits
ParseInt(t) == IF t = <<>> THEN 0 ELSE ParseInt(SubSeq(t, 1, Len(t) - 1)) * 10 + DigitValue(t[Len(t)])

\* is there "(" four digits ")" at position p
ParenYearAt(t, p) ==
    /\ p + 5 <= Len(t)
    /\ t[p] = "(" /\ t[p + 5] = ")"
    /\ \A i \in 1..4 : IsDigit(t[p + i])

RECURSIVE RemoveParenYears(_)
\* re.sub(r"\(\d{4}\)", "", remaining)
RemoveParenYears(t) ==
    IF t = <<>> THEN <<>>
    ELSE IF ParenYearAt(t, 1) THEN RemoveParenYears(SubSeq(t, 7, Len(t)))
    ELSE <<Head(t)>> \o RemoveParenYears(Tail(t))

RECURSIVE FindNumbers(_)
\* re.findall(r"\d+", remaining): the runs of digits, as text
FindNumbers(t) ==
    IF t = <<>> THEN <<>>
    ELSE IF IsDigit(Head(t))
         THEN LET e == SkipDigits(t, 1)
              IN  <<SubSeq(t, 1, e - 1)>> \o FindNumbers(SubSeq(t, e, Len(t)))
         ELSE FindNumbers(Tail(t))

\* the era and year of a match of the pattern in clean_str, and the numbers
\* behind it
FieldsOfMatch(clean_str, match) ==
    IF match.end = 0
    THEN [matched |-> FALSE, era |-> "", year_str |-> <<>>, numbers |-> <<>>]
    ELSE [matched |-> TRUE,
          era |-> CASE match.era[1] = "r" -> "Reiwa" [] match.era[1] = "h" -> "Heisei"
                    [] match.era[1] = "s" -> "Showa" [] match.era[1] = "t" -> "Taisho"
                    [] match.era[1] = "m" -> "Meiji",
          year_str |-> SubSeq(clean_str, match.year_from, match.end - 1),
          numbers |-> FindNumbers(
              RemoveParenYears(SubSeq(clean_str, match.end, Len(clean_str))))]

\* what the function reads in date_str: the era and year the pattern matched
\* and the numbers behind them
DateFields(date_str) == FieldsOfMatch(Strip(date_str), SearchFrom(Strip(date_str), 1))

\* does int(digits) fit the C int that datetime.date takes its arguments as
FitsCInt(digits) ==
    LET first == IF \A i \in 1..Len(digits) : DigitValue(digits[i]) = 0 THEN Len(digits)
                 ELSE CHOOSE i \in 1..Len(digits) :
                        /\ DigitValue(digits[i]) # 0
                        /\ \A j \in 1..(i - 1) : DigitValue(digits[j]) = 0
        sig == SubSeq(digits, first, Len(digits))
    IN  \/ Len(sig) < 10
        \/ /\ Len(sig) = 10
           /\ \/ ParseInt(SubSeq(sig, 1, 9)) < 214748364
              \/ ParseInt(SubSeq(sig, 1, 9)) = 214748364 /\ DigitValue(sig[10]) <= 7

\* does datetime.date get arguments within a C int from the fields read
FieldsFit(f) ==
    /\ \/ ~IsDigit(f.year_str[1])
       \/ /\ FitsCInt(f.year_str)
          /\ ParseInt(f.year_str) - 1 <= 2147483647 - ERA_START_YEARS(f.era)
    /\ \A i \in 1..Len(f.numbers) : i <= 2 => FitsCInt(f.numbers[i])

\* the exception the function lets through: datetime.date raises
\* OverflowError, which "except ValueError" does not catch, for an argument
\* beyond a C int
date_raises(date_str) ==
    IF date_str = NULL \/ date_str = <<>> THEN NoError
    ELSE IF ~DateFields(date_str).matched THEN NoError
    ELSE IF FieldsFit(DateFields(date_str)) THEN NoError
    ELSE "OverflowError"

\* datetime.date(y, m, d) does not raise ValueError
IsValidDate(y, m, d) ==
    LET leap == (y % 4 = 0 /\ y % 100 # 0) \/ y % 400 = 0
        days_in_month == IF m = 2 THEN (IF leap THEN 29 ELSE 28)
                         ELSE IF m \in {4, 6, 9, 11} THEN 30 ELSE 31
    IN  /\ y >= 1 /\ y <= 9999
        /\ m >= 1 /\ m <= 12
        /\ d >= 1 /\ d <= days_in_month

RECURSIVE ZeroPad(_, _)
\* "%0{width}d" % n
ZeroPad(n, width) ==
    IF width = 0 THEN <<>>
    ELSE ZeroPad(n \div 10, width - 1)
         \o <<(<<"0", "1", "2", "3", "4", "5", "6", "7", "8", "9">>)[(n % 10) + 1]>>

\* datetime.date.isoformat()
IsoFormat(y, m, d) == ZeroPad(y, 4) \o <<"-">> \o ZeroPad(m, 2) \o <<"-">> \o ZeroPad(d, 2)

\* the date of the fields read, when datetime.date raises nothing but
\* ValueError
DateOfFields(f) ==
    IF ~f.matched THEN NULL
    ELSE
    LET year_offset == IF IsDigit(f.year_str[1]) THEN ParseInt(f.year_str) - 1 ELSE 0
        gregorian_year == ERA_START_YEARS(f.era) + year_offset
        month == IF Len(f.numbers) >= 1 THEN ParseInt(f.numbers[1]) ELSE 1
        day == IF Len(f.numbers) >= 2 THEN ParseInt(f.numbers[2]) ELSE 1
    IN  IF IsValidDate(gregorian_year, month, day)
        THEN IsoFormat(gregorian_year, month, day)
        ELSE NULL

\* what the function returns when it raises nothing
convert_japanese_date_to_iso(date_str) ==
    IF date_str = NULL \/ date_str = <<>> THEN NULL
    ELSE DateOfFields(DateFields(date_str))

----------------------------------------------------------------------------
(* polars *)

RECURSIVE FlatMap(_, _)
\* the concatenation of F(s[1]), F(s[2]), ...
FlatMap(F(_), s) == IF s = <<>> THEN <<>> ELSE F(Head(s)) \o FlatMap(F, Tail(s))

\* pl.col(c) == lit: a comparison with null is null, and filter drops it
ColEquals(row, c, lit) == row[c] # NULL /\ row[c] = lit

\* DataFrame.filter
Filter(df, P(_)) == [columns |-> df.columns, rows |-> SelectSeq(df.rows, P)]

\* the name a right-hand column gets in a join: the key is dropped, a name the
\* left frame already has takes the suffix
JoinedName(c, left_columns, suffix) == IF c \in left_columns THEN c \o suffix ELSE c

\* join keys match when equal and not null (nulls_equal is False by default)
KeysMatch(l, r, left_on, right_on) ==
    l[left_on] # NULL /\ r[right_on] # NULL /\ l[left_on] = r[right_on]

\* one output row of a join: the left row, then the right row's other columns
\* (nulls when r is NULL, the unmatched row of a left join)
JoinRow(l, r, right_columns, right_on, suffix) ==
    LET rc == right_columns \ {right_on}
        named == {JoinedName(c, DOMAIN l, suffix) : c \in rc}
    IN  l @@ [n \in named |->
                IF r = NULL THEN NULL
                ELSE r[CHOOSE c \in rc : JoinedName(c, DOMAIN l, suffix) = n]]

\* DataFrame.join(other, left_on=, right_on=, how=, suffix=), how in {"inner", "left"}
JoinOn(left, right, left_on, right_on, how, suffix) ==
    LET Matches(l) == SelectSeq(right.rows, LAMBDA r : KeysMatch(l, r, left_on, right_on))
        Out(l) ==
            IF Matches(l) = <<>>
            THEN IF how = "left"
                 THEN <<JoinRow(l, NULL, right.columns, right_on, suffix)>>
                 ELSE <<>>
            ELSE FlatMap(LAMBDA r : <<JoinRow(l, r, right.columns, right_on, suffix)>>,
                         Matches(l))
    IN  [columns |-> left.columns \cup
                       {JoinedName(c, left.columns, suffix) : c \in right.columns \ {right_on}},
         rows |-> FlatMap(Out, left.rows)]

\* DataFrame.join(other, on=on, how=how, suffix=suffix)
Join(left, right, on, how, suffix) == JoinOn(left, right, on, on, how, suffix)

\* DataFrame.rename(rename_map), rename_map given as a set of <<old, new>> pairs
Rename(df, rename_map) ==
    LET NewName(c) == IF \E p \in rename_map : p[1] = c
                      THEN (CHOOSE p \in rename_map : p[1] = c)[2]
                      ELSE c
        columns == {NewName(c) : c \in df.columns}
    IN  [columns |-> columns,
         rows |-> [i \in 1..Len(df.rows) |->
                     [n \in columns |->
                        df.rows[i][CHOOSE c \in df.columns : NewName(c) = n]]]]

\* df.with_columns(pl.lit(None).alias(c)) for every c of cols the frame lacks
WithNullColumns(df, cols) ==
    [columns |-> df.columns \cup cols,
     rows |-> [i \in 1..Len(df.rows) |->
                 df.rows[i] @@ [c \in cols \ df.columns |-> NULL]]]

\* df.with_columns(pl.lit(value).alias(c)): the column is added or overwritten
WithLiteral(df, c, value) ==
    [columns |-> df.columns \cup {c},
     rows |-> [i \in 1..Len(df.rows) |-> (c :> value) @@ df.rows[i]]]

\* pl.col(name).alias(alias) if name in final.columns else pl.lit(None).alias(alias)
safe_col(row, columns, name) == IF name \in columns THEN row[name] ELSE NULL

_right == <<"_", "r", "i", "g", "h", "t">>
_demo == <<"_", "d", "e", "m", "o">>
_reac == <<"_", "r", "e", "a", "c">>

----------------------------------------------------------------------------
(* transform_gold_jader.py, the module pipeline_full.py imports *)

\* pl.col("characterization") == "Suspected"
IsSuspectedAnyCase(row) ==
    ColEquals(row, JaderCol.characterization, Suspected)
    \/ ColEquals(row, JaderCol.characterization, <<"s">> \o Tail(Suspected))

IsSuspected(row) == ColEquals(row, JaderCol.characterization, Suspected)

\* final.select([...]): the six columns of pmda_adverse_events
SelectGold(final) ==
    [columns |-> {EventCol.case_id, EventCol.patient_sex, EventCol.patient_age_group,
                  EventCol.primary_suspect_drug, EventCol.reaction_pt, JaderCol.reporting_year},
     rows |-> [i \in 1..Len(final.rows) |->
                 LET row == final.rows[i] IN
                 (EventCol.case_id :> safe_col(row, final.columns, JaderCol.id))
                 @@ (EventCol.patient_sex :> safe_col(row, final.columns, JaderCol.sex))
                 @@ (EventCol.patient_age_group :> safe_col(row, final.columns, JaderCol.age))
                 @@ (EventCol.primary_suspect_drug :> safe_col(row, final.columns, JaderCol.drug_name))
                 @@ (EventCol.reaction_pt :> safe_col(row, final.columns, JaderCol.reaction))
                 @@ (JaderCol.reporting_year :> safe_col(row, final.columns, JaderCol.reporting_year))]]

\* the filter before the checks of the keys
transform_jader_gold_filter_first(demo, drug, reac) ==
    IF JaderCol.characterization \notin drug.columns
    THEN Raised("ValueError: drug_df missing 'characterization' column")
    ELSE IF JaderCol.id \notin demo.columns THEN Raised("ValueError: demo_df missing key: id")
    ELSE IF JaderCol.id \notin drug.columns THEN Raised("ValueError: drug_df missing key: id")
    ELSE IF JaderCol.id \notin reac.columns THEN Raised("ValueError: reac_df missing key: id")
    ELSE LET suspect_drugs == Filter(drug, IsSuspected)
             base_drug == Join(demo, suspect_drugs, JaderCol.id, "inner", _right)
             final == Join(base_drug, reac, JaderCol.id, "inner", _right)
         IN  Returned(SelectGold(final))

transform_jader_gold(demo, drug, reac) ==
    IF JaderCol.id \notin demo.columns THEN Raised("ValueError: demo_df missing key: id")
    ELSE IF JaderCol.id \notin drug.columns THEN Raised("ValueError: drug_df missing key: id")
    ELSE IF JaderCol.id \notin reac.columns THEN Raised("ValueError: reac_df missing key: id")
    ELSE IF JaderCol.characterization \notin drug.columns
    THEN Raised("ValueError: drug_df missing 'characterization' column")
    ELSE LET suspect_drugs == Filter(drug, IsSuspected)
             base_drug == Join(demo, suspect_drugs, JaderCol.id, "inner", _right)
             final == Join(base_drug, reac, JaderCol.id, "inner", _right)
         IN  Returned(SelectGold(final))

----------------------------------------------------------------------------
(* transformations/gold/transform_gold_jader.py, the package's module *)

\* (pl.col("characterization") == "Suspected") & pl.col("id").is_not_null()
IsSuspectedWithId(row) == ColEquals(row, JaderCol.characterization, Suspected) /\ row[JaderCol.id] # NULL

pkg_transform_jader_gold(demo, drug, reac) ==
    IF JaderCol.id \notin demo.columns THEN Raised("ValueError: demo_df missing key: id")
    ELSE IF JaderCol.id \notin drug.columns THEN Raised("ValueError: drug_df missing key: id")
    ELSE IF JaderCol.id \notin reac.columns THEN Raised("ValueError: reac_df missing key: id")
    ELSE IF JaderCol.characterization \notin drug.columns
    THEN Raised("ValueError: drug_df missing 'characterization' column")
    ELSE LET suspect_drugs == Filter(drug, IsSuspectedWithId)
             base_drug == Join(suspect_drugs, demo, JaderCol.id, "left", _demo)
             final == Join(base_drug, reac, JaderCol.id, "left", _reac)
         IN  Returned(SelectGold(final))

----------------------------------------------------------------------------
(* transform_silver.py *)


\* the fields of SilverApprovalSchema
ApprovalCol ==
    [approval_id |->
        <<"a", "p", "p", "r", "o", "v", "a", "l", "_", "i", "d">>,
     approval_date |->
        <<"a", "p", "p", "r", "o", "v", "a", "l", "_", "d", "a", "t", "e">>,
     brand_name_jp |->
        <<"b", "r", "a", "n", "d", "_", "n", "a", "m", "e", "_", "j", "p">>,
     generic_name_jp |->
        <<"g", "e", "n", "e", "r", "i", "c", "_", "n", "a", "m", "e", "_", "j", "p">>,
     applicant_name_jp |->
        <<"a", "p", "p", "l", "i", "c", "a", "n", "t", "_", "n", "a", "m", "e", "_", "j", "p">>,
     indication |->
        <<"i", "n", "d", "i", "c", "a", "t", "i", "o", "n">>,
     coreason_id |->
        <<"c", "o", "r", "e", "a", "s", "o", "n", "_", "i", "d">>,
     application_type |->
        <<"a", "p", "p", "l", "i", "c", "a", "t", "i", "o", "n", "_", "t", "y", "p", "e">>,
     generic_name_en |->
        <<"g", "e", "n", "e", "r", "i", "c", "_", "n", "a", "m", "e", "_", "e", "n">>,
     review_report_url |->
        <<"r", "e", "v", "i", "e", "w", "_", "r", "e", "p", "o", "r", "t", "_", "u", "r", "l">>,
     _translation_status |->
        <<"_", "t", "r", "a", "n", "s", "l", "a", "t", "i", "o", "n", "_", "s", "t", "a", "t", "u", "s">>]

\* the columns of the JAN/INN reference table
JanCol ==
    [jan_name_jp |->
        <<"j", "a", "n", "_", "n", "a", "m", "e", "_", "j", "p">>,
     jan_name_en |->
        <<"j", "a", "n", "_", "n", "a", "m", "e", "_", "e", "n">>,
     inn_name_en |->
        <<"i", "n", "n", "_", "n", "a", "m", "e", "_", "e", "n">>]

\* the Japanese headers of the approvals table, by code point
ApprovalHeader ==
    [approval_id |->
        <<"U+627F", "U+8A8D", "U+756A", "U+53F7">>,
     approval_date |->
        <<"U+627F", "U+8A8D", "U+5E74", "U+6708", "U+65E5">>,
     brand_name_jp |->
        <<"U+8CA9", "U+58F2", "U+540D">>,
     generic_name_jp |->
        <<"U+4E00", "U+822C", "U+7684", "U+540D", "U+79F0">>,
     applicant_name_jp |->
        <<"U+7533", "U+8ACB", "U+8005", "U+6C0F", "U+540D">>,
     indication |->
        <<"U+85AC", "U+52B9", "U+5206", "U+985E", "U+540D">>]

COLUMN_MAPPING ==
    {<<ApprovalHeader.approval_id, ApprovalCol.approval_id>>, <<ApprovalHeader.approval_date, ApprovalCol.approval_date>>,
     <<ApprovalHeader.brand_name_jp, ApprovalCol.brand_name_jp>>, <<ApprovalHeader.generic_name_jp, ApprovalCol.generic_name_jp>>,
     <<ApprovalHeader.applicant_name_jp, ApprovalCol.applicant_name_jp>>, <<ApprovalHeader.indication, ApprovalCol.indication>>}

\* the fields of SilverApprovalSchema that model_dump() returns (the private
\* attribute _translation_status is not one of them)
SilverApprovalFields ==
    {ApprovalCol.approval_id, ApprovalCol.approval_date, ApprovalCol.brand_name_jp, ApprovalCol.generic_name_jp,
     ApprovalCol.applicant_name_jp, ApprovalCol.indication, ApprovalCol.coreason_id, ApprovalCol.application_type,
     ApprovalCol.generic_name_en, ApprovalCol.review_report_url}

\* hashlib.sha256(raw).hexdigest(), kept as an injective image of raw
sha256(raw) == <<"sha256">> \o raw

\* a namespace tag that lost its last letter
PMD == <<"P", "M", "D">>

PMDA == <<"P", "M", "D", "A">>

\* norm_str: normalize_text(s) if s else None
norm_str(s) == IF s = NULL \/ s = <<>> THEN NULL ELSE normalize_text(s)

\* norm_date: convert_japanese_date_to_iso(s) if s else None
norm_date(s) == IF s = NULL \/ s = <<>> THEN NULL ELSE convert_japanese_date_to_iso(s)

normalize_approvals(df) ==
    LET renamed == Rename(df, COLUMN_MAPPING)
        expected_cols == {p[2] : p \in COLUMN_MAPPING} \cup {ApprovalCol.application_type}
        filled == WithNullColumns(renamed, expected_cols)
        text_cols == {ApprovalCol.brand_name_jp, ApprovalCol.generic_name_jp, ApprovalCol.applicant_name_jp,
                      ApprovalCol.indication, ApprovalCol.approval_id}
        Normalized(row) ==
            [c \in filled.columns |->
                IF c \in text_cols THEN norm_str(row[c])
                ELSE IF c = ApprovalCol.approval_date THEN norm_date(row[c])
                ELSE row[c]]
        \* str(sid) if sid is not None else "", and the same for the date
        generate_id(sid, date) ==
            sha256(PMDA \o (IF sid = NULL THEN <<>> ELSE sid)
                        \o (IF date = NULL THEN <<>> ELSE date))
        WithId(row) ==
            (ApprovalCol.coreason_id :>
                generate_id(row[ApprovalCol.approval_id], row[ApprovalCol.approval_date]))
            @@ row
        validate_row(row) ==
            [c \in SilverApprovalFields |-> IF c \in DOMAIN row THEN row[c] ELSE NULL]
    IN  [columns |-> SilverApprovalFields,
         rows |-> [i \in 1..Len(filled.rows) |->
                     validate_row(WithId(Normalized(filled.rows[i])))]]

\* a coalesce that prefers its second column
CoalesceSecond(a, b) == IF b # NULL THEN b ELSE a

\* pl.coalesce(["inn_name_en", "jan_name_en"])
Coalesce(a, b) == IF a # NULL THEN a ELSE b

jan_bridge_lookup(approvals_df, jan_df) ==
    IF ApprovalCol.generic_name_jp \notin approvals_df.columns
    THEN Raised("ValueError: approvals_df must have generic_name_jp")
    ELSE IF JanCol.jan_name_jp \notin jan_df.columns
    THEN Raised("ValueError: jan_df must have jan_name_jp")
    ELSE LET joined == JoinOn(approvals_df, jan_df, ApprovalCol.generic_name_jp, JanCol.jan_name_jp,
                              "left", _right)
         IN  Returned([columns |-> joined.columns \cup {ApprovalCol.generic_name_en},
                       rows |-> [i \in 1..Len(joined.rows) |->
                                   (ApprovalCol.generic_name_en :>
                                       Coalesce(joined.rows[i][JanCol.inn_name_en],
                                                joined.rows[i][JanCol.jan_name_en]))
                                   @@ joined.rows[i]]])

\* what the HTTP request of call_deepseek can come to: an exception (timeout,
\* HTTP error, malformed body) or a message content
NoContent == [raises |-> TRUE, content |-> <<>>]

\* call_deepseek on the outcome of its request; without the credential it
\* returns None before any request
call_deepseek(reply) ==
    IF ~api_key THEN NULL
    ELSE IF reply.raises THEN NULL
    ELSE IF reply.content = NULL \/ reply.content = <<>> THEN NULL
    ELSE Strip(reply.content)

\* translate: no request is made for a row without generic_name_jp
translate(row, reply) ==
    IF row[ApprovalCol.generic_name_jp] = NULL \/ row[ApprovalCol.generic_name_jp] = <<>> THEN NULL
    ELSE call_deepseek(reply)


\* the values of _translation_status
Status ==
    [lookup_success |->
        <<"l", "o", "o", "k", "u", "p", "_", "s", "u", "c", "c", "e", "s", "s">>,
     ai_translated |->
        <<"a", "i", "_", "t", "r", "a", "n", "s", "l", "a", "t", "e", "d">>,
     failed |->
        <<"f", "a", "i", "l", "e", "d">>,
     skipped_no_key |->
        <<"s", "k", "i", "p", "p", "e", "d", "_", "n", "o", "_", "k", "e", "y">>]

\* does row i of the batch make a request to the translation service
NeedsRequest(df, i) ==
    /\ df.rows[i][ApprovalCol.generic_name_en] = NULL
    /\ df.rows[i][ApprovalCol.generic_name_jp] # NULL
    /\ df.rows[i][ApprovalCol.generic_name_jp] # <<>>

\* the rows of the batch for which call_deepseek posts its request
Posted(df) == IF api_key THEN {i \in 1..Len(df.rows) : NeedsRequest(df, i)} ELSE {}

\* a fallback that gives up on the whole batch when one call fails
jan_bridge_ai_fallback_batch(df, replies) ==
    IF \A i \in 1..Len(df.rows) : df.rows[i][ApprovalCol.generic_name_en] # NULL
    THEN df
    ELSE LET any_failed ==
                 \E j \in 1..Len(df.rows) :
                     /\ df.rows[j][ApprovalCol.generic_name_en] = NULL
                     /\ translate(df.rows[j], replies[j]) = NULL
         IN  [columns |-> df.columns \cup {ApprovalCol._translation_status},
              rows |-> [i \in 1..Len(df.rows) |->
                          LET row == df.rows[i] IN
                          IF row[ApprovalCol.generic_name_en] = NULL
                          THEN LET trans == IF any_failed THEN NULL
                                            ELSE translate(row, replies[i]) IN
                               (ApprovalCol.generic_name_en :> trans)
                               @@ (ApprovalCol._translation_status :>
                                      IF trans = NULL THEN Status.failed
                                      ELSE Status.ai_translated)
                               @@ row
                          ELSE (ApprovalCol._translation_status :> Status.lookup_success)
                               @@ row]]

\* jan_bridge_ai_fallback; replies[i] is the outcome of the request made for row i
jan_bridge_ai_fallback(df, replies) ==
    IF \A i \in 1..Len(df.rows) : df.rows[i][ApprovalCol.generic_name_en] # NULL
    THEN df
    ELSE [columns |-> df.columns \cup {ApprovalCol._translation_status},
          rows |-> [i \in 1..Len(df.rows) |->
                      LET row == df.rows[i] IN
                      IF row[ApprovalCol.generic_name_en] = NULL
                      THEN LET trans == translate(row, replies[i]) IN
                           (ApprovalCol.generic_name_en :> trans)
                           @@ (ApprovalCol._translation_status :>
                                  IF trans = NULL THEN Status.failed ELSE Status.ai_translated)
                           @@ row
                      ELSE (ApprovalCol._translation_status :> Status.lookup_success) @@ row]]

----------------------------------------------------------------------------
(* transform_gold_approvals.py, the module pipeline_full.py imports *)

\* the ten columns of pmda_approvals
GoldApprovalColumns ==
    {ApprovalCol.coreason_id, ApprovalCol.approval_id, ApprovalCol.application_type, ApprovalCol.brand_name_jp,
     ApprovalCol.generic_name_jp, ApprovalCol.generic_name_en, ApprovalCol.applicant_name_jp, ApprovalCol.approval_date,
     ApprovalCol.indication, ApprovalCol.review_report_url}

transform_approvals_gold(approvals_df) ==
    IF ApprovalCol.approval_id \notin approvals_df.columns
    THEN Raised("ValueError: Missing required column: approval_id")
    ELSE IF ApprovalCol.brand_name_jp \notin approvals_df.columns
    THEN Raised("ValueError: Missing required column: brand_name_jp")
    ELSE IF ApprovalCol.generic_name_jp \notin approvals_df.columns
    THEN Raised("ValueError: Missing required column: generic_name_jp")
    ELSE IF ApprovalCol.approval_date \notin approvals_df.columns
    THEN Raised("ValueError: Missing required column: approval_date")
    ELSE
    LET Normalized(row) ==
            (ApprovalCol.brand_name_jp :> norm_str(row[ApprovalCol.brand_name_jp]))
            @@ (ApprovalCol.generic_name_jp :> norm_str(row[ApprovalCol.generic_name_jp]))
            @@ (ApprovalCol.applicant_name_jp :>
                   IF ApprovalCol.applicant_name_jp \in approvals_df.columns
                   THEN norm_str(row[ApprovalCol.applicant_name_jp]) ELSE NULL)
            @@ (ApprovalCol.indication :>
                   IF ApprovalCol.indication \in approvals_df.columns
                   THEN norm_str(row[ApprovalCol.indication]) ELSE NULL)
            @@ (ApprovalCol.approval_date :> norm_date(row[ApprovalCol.approval_date]))
            @@ row
        \* sid or "", date or ""
        generate_id(sid, date) ==
            sha256(PMDA \o (IF sid = NULL \/ sid = <<>> THEN <<>> ELSE sid)
                        \o (IF date = NULL \/ date = <<>> THEN <<>> ELSE date))
        WithId(row) ==
            (ApprovalCol.coreason_id :>
                generate_id(row[ApprovalCol.approval_id], row[ApprovalCol.approval_date]))
            @@ row
        Selected(row) ==
            [c \in GoldApprovalColumns |-> IF c \in DOMAIN row THEN row[c] ELSE NULL]
    IN  Returned([columns |-> GoldApprovalColumns,
                  rows |-> [i \in 1..Len(approvals_df.rows) |->
                              Selected(WithId(Normalized(approvals_df.rows[i])))]])

----------------------------------------------------------------------------
(* silver/transform_silver_jader.py *)

\* the Japanese headers of the JADER tables, by code point
JaderHeader ==
    [id |->
        <<"U+8B58", "U+5225", "U+756A", "U+53F7">>,
     sex |->
        <<"U+6027", "U+5225">>,
     age |->
        <<"U+5E74", "U+9F62">>,
     reporting_year |->
        <<"U+5831", "U+544A", "U+5E74", "U+5EA6">>,
     drug_name |->
        <<"U+533B", "U+85AC", "U+54C1", "U+FF08", "U+4E00", "U+822C", "U+540D", "U+FF09">>,
     characterization |->
        <<"U+88AB", "U+7591", "U+85AC", "U+7B49", "U+533A", "U+5206">>,
     reaction |->
        <<"U+6709", "U+5BB3", "U+4E8B", "U+8C61">>]

\* the Japanese values of the characterization column
JaderTerm ==
    [suspected |->
        <<"U+88AB", "U+7591", "U+85AC">>,
     concomitant |->
        <<"U+4F75", "U+7528", "U+85AC">>]

DEMO_MAPPING ==
    {<<JaderHeader.id, JaderCol.id>>, <<JaderHeader.sex, JaderCol.sex>>, <<JaderHeader.age, JaderCol.age>>,
     <<JaderHeader.reporting_year, JaderCol.reporting_year>>}

DRUG_MAPPING ==
    {<<JaderHeader.id, JaderCol.id>>, <<JaderHeader.drug_name, JaderCol.drug_name>>,
     <<JaderHeader.characterization, JaderCol.characterization>>}

REAC_MAPPING == {<<JaderHeader.id, JaderCol.id>>, <<JaderHeader.reaction, JaderCol.reaction>>}

CHARACTERIZATION_MAPPING == {<<JaderTerm.suspected, Suspected>>, <<JaderTerm.concomitant, Concomitant>>}

\* re.sub(r"\s+", "", col)
RemoveSpaces(col) == SelectSeq(col, LAMBDA ch : ~IsSpace(ch))

\* a mapper that fills a missing id with nulls like any other column
_normalize_common_lenient(df, mapping) ==
    LET new_cols == {<<col, RemoveSpaces(col)>> : col \in df.columns}
        stripped == Rename(df, new_cols)
        rename_map == {m \in mapping : m[1] \in stripped.columns}
        renamed == Rename(stripped, rename_map)
        missing == {m[2] : m \in mapping} \ renamed.columns
        filled == WithNullColumns(renamed, missing)
    IN  Returned([columns |-> filled.columns,
                  rows |-> [i \in 1..Len(filled.rows) |->
                              [c \in filled.columns |-> normalize_text(filled.rows[i][c])]]])

_normalize_common(df, mapping) ==
    LET new_cols == {<<col, RemoveSpaces(col)>> : col \in df.columns}
        stripped == Rename(df, new_cols)
        rename_map == {m \in mapping : m[1] \in stripped.columns}
        renamed == Rename(stripped, rename_map)
        missing == {m[2] : m \in mapping} \ renamed.columns
        filled == WithNullColumns(renamed, missing)
        cols_to_normalize ==
            filled.columns \cap {JaderCol.sex, JaderCol.age, JaderCol.drug_name, JaderCol.characterization,
                                 JaderCol.reaction, JaderCol.id}
    IN  IF JaderCol.id \in missing
        THEN Raised("ValueError: Missing critical column 'id'")
        ELSE Returned([columns |-> filled.columns,
                       rows |-> [i \in 1..Len(filled.rows) |->
                                   [c \in filled.columns |->
                                      IF c \in cols_to_normalize
                                      THEN normalize_text(filled.rows[i][c])
                                      ELSE filled.rows[i][c]]]])

normalize_jader_demo(df) == _normalize_common(df, DEMO_MAPPING)

\* replace_strict(CHARACTERIZATION_MAPPING, default=pl.col("characterization"))
replace_strict(value) ==
    IF \E m \in CHARACTERIZATION_MAPPING : m[1] = value
    THEN (CHOOSE m \in CHARACTERIZATION_MAPPING : m[1] = value)[2]
    ELSE value

normalize_jader_drug(df) ==
    LET common == _normalize_common(df, DRUG_MAPPING)
    IN  IF common.raised # NoError THEN common
        ELSE Returned([columns |-> common.df.columns,
                       rows |-> [i \in 1..Len(common.df.rows) |->
                                   (JaderCol.characterization :>
                                       replace_strict(common.df.rows[i][JaderCol.characterization]))
                                   @@ common.df.rows[i]]])

normalize_jader_reac(df) == _normalize_common(df, REAC_MAPPING)

----------------------------------------------------------------------------
(* The reconstruction as a function of its three arguments *)

MaxDemoRows == 2
MaxDrugRows == 2
MaxReacRows == 2

SeqsUpTo(S, n) == UNION {[1..k -> S] : k \in 0..n}

CaseIds == {<<"1">>, <<"2">>, NULL}

DemoRows ==
    {(JaderCol.id :> i) @@ (JaderCol.sex :> <<"M">>) @@ (JaderCol.age :> <<"2", "0", "s">>)
       @@ (JaderCol.reporting_year :> <<"2", "0", "2", "0">>) : i \in CaseIds}

DrugRows ==
    {(JaderCol.id :> i) @@ (JaderCol.drug_name :> n) @@ (JaderCol.characterization :> ch) :
        i \in CaseIds, n \in {<<"D", "1">>, <<"D", "2">>},
        ch \in {Suspected, Concomitant, <<"s">> \o Tail(Suspected), NULL}}

ReacRows ==
    {(JaderCol.id :> i) @@ (JaderCol.reaction :> r) : i \in CaseIds, r \in {<<"R", "1">>, <<"R", "2">>}}

\* a frame of one row without the columns in lacking
OneRow(row, lacking) ==
    [columns |-> DOMAIN row \ lacking,
     rows |-> <<[c \in DOMAIN row \ lacking |-> row[c]]>>]

\* the three tables with all their columns and up to the bounds' rows, or
\* one row each and some of the columns the function checks for absent
InitJader ==
    /\ \/ /\ demo_df \in {[columns |-> {JaderCol.id, JaderCol.sex, JaderCol.age, JaderCol.reporting_year},
                              rows |-> rs] : rs \in SeqsUpTo(DemoRows, MaxDemoRows)}
          /\ drug_df \in {[columns |-> {JaderCol.id, JaderCol.drug_name, JaderCol.characterization},
                              rows |-> rs] : rs \in SeqsUpTo(DrugRows, MaxDrugRows)}
          /\ reac_df \in {[columns |-> {JaderCol.id, JaderCol.reaction}, rows |-> rs] :
                              rs \in SeqsUpTo(ReacRows, MaxReacRows)}
       \/ /\ demo_df \in {OneRow(CHOOSE r \in DemoRows : r[JaderCol.id] = <<"1">>, lacking) :
                              lacking \in SUBSET {JaderCol.id}}
          /\ drug_df \in {OneRow(CHOOSE r \in DrugRows :
                                     /\ r[JaderCol.id] = <<"1">>
                                     /\ r[JaderCol.drug_name] = <<"D", "1">>
                                     /\ r[JaderCol.characterization] = Suspected, lacking) :
                              lacking \in SUBSET {JaderCol.id, JaderCol.characterization}}
          /\ reac_df \in {OneRow(CHOOSE r \in ReacRows :
                                     r[JaderCol.id] = <<"1">> /\ r[JaderCol.reaction] = <<"R", "1">>,
                                   lacking) :
                              lacking \in SUBSET {JaderCol.id}}
          /\ \/ JaderCol.id \notin demo_df.columns \cap drug_df.columns \cap reac_df.columns
             \/ JaderCol.characterization \notin drug_df.columns
    /\ jader_pc = "input"
    /\ jader_out = Returned(NoDF)
    /\ OrchestratorOff
    /\ UnitsOff
    /\ FetchOff
    /\ SourceOff

CallTransformJaderGold ==
    /\ jader_pc = "input"
    /\ jader_pc' = "gold"
    /\ jader_out' = transform_jader_gold(demo_df, drug_df, reac_df)
    /\ UNCHANGED <<demo_df, drug_df, reac_df>>
    /\ UNCHANGED <<ovars, uvars, svars, avars>>

CallPkgTransformJaderGold ==
    /\ jader_pc = "input"
    /\ jader_pc' = "pkg"
    /\ jader_out' = pkg_transform_jader_gold(demo_df, drug_df, reac_df)
    /\ UNCHANGED <<demo_df, drug_df, reac_df>>
    /\ UNCHANGED <<ovars, uvars, svars, avars>>

NextJader == CallTransformJaderGold \/ CallPkgTransformJaderGold

SpecJader == InitJader /\ [][NextJader]_vars

----------------------------------------------------------------------------
(* Properties of the reconstruction *)

Count(s, P(_)) == Len(SelectSeq(s, P))

\* the orchestrator calls the reconstruction with three non-empty tables
\* (run_gold), and Demo is keyed by the case id: at most one row per case
OrchestratorInput ==
    /\ demo_df.rows # <<>> /\ drug_df.rows # <<>> /\ reac_df.rows # <<>>
    /\ \A i, j \in 1..Len(demo_df.rows) :
          demo_df.rows[i][JaderCol.id] = demo_df.rows[j][JaderCol.id] => i = j

GoldRan == jader_pc = "gold" /\ jader_out.raised = NoError /\ OrchestratorInput

DemoRowsOf(c) == Count(demo_df.rows, LAMBDA r : r[JaderCol.id] = c)

ReacRowsOf(c) == Count(reac_df.rows, LAMBDA r : r[JaderCol.id] = c)

\* the Suspected drug rows of case c named n
SuspectedRowsOf(c, n) ==
    Count(drug_df.rows, LAMBDA d : d[JaderCol.characterization] = Suspected
                                   /\ d[JaderCol.id] = c /\ d[JaderCol.drug_name] = n)

\* the output rows of case c for the drug named n
OutRowsOf(c, n) ==
    Count(jader_out.df.rows, LAMBDA o : o[EventCol.case_id] = c /\ o[EventCol.primary_suspect_drug] = n)

SuspectedKeys ==
    {<<d[JaderCol.id], d[JaderCol.drug_name]>> : d \in {drug_df.rows[i] : i \in 1..Len(drug_df.rows)}}

\* C1: every Drug row whose characterization is "Suspected" and whose case id
\* is not null yields at least one output row of the orchestrator's
\* reconstruction, also when Demo has no row for the case, and then the row's
\* patient_sex, patient_age_group and reporting_year are null.
C1_ZeroLoss ==
    GoldRan =>
        \A i \in 1..Len(drug_df.rows) :
            LET d == drug_df.rows[i] IN
            (d[JaderCol.characterization] = Suspected /\ d[JaderCol.id] # NULL) =>
                \E k \in 1..Len(jader_out.df.rows) :
                    LET o == jader_out.df.rows[k] IN
                    /\ o[EventCol.case_id] = d[JaderCol.id]
                    /\ o[EventCol.primary_suspect_drug] = d[JaderCol.drug_name]
                    /\ DemoRowsOf(d[JaderCol.id]) = 0 =>
                          /\ o[EventCol.patient_sex] = NULL
                          /\ o[EventCol.patient_age_group] = NULL
                          /\ o[JaderCol.reporting_year] = NULL

\* C2: a Suspected drug row whose case has no Reaction row appears once in the
\* output, with reaction_pt null; one whose case has N >= 1 Reaction rows
\* appears N times.
C2_ReactionLeftJoin ==
    GoldRan =>
        \A key \in SuspectedKeys :
            LET c == key[1]
                n == key[2]
            IN  c # NULL =>
                  /\ OutRowsOf(c, n) =
                        SuspectedRowsOf(c, n) * (IF ReacRowsOf(c) = 0 THEN 1 ELSE ReacRowsOf(c))
                  /\ ReacRowsOf(c) = 0 =>
                        \A k \in 1..Len(jader_out.df.rows) :
                            jader_out.df.rows[k][EventCol.case_id] = c
                                => jader_out.df.rows[k][EventCol.reaction_pt] = NULL

\* C3: a case with S >= 1 Suspected drug rows and R >= 1 Reaction rows, both
\* counted with multiplicity, has exactly S*R output rows, every such drug row
\* paired with every such reaction row once.
C3_CartesianProduct ==
    GoldRan =>
        \A c \in CaseIds \ {NULL} :
            LET S == Count(drug_df.rows, LAMBDA d : d[JaderCol.characterization] = Suspected /\ d[JaderCol.id] = c)
                R == ReacRowsOf(c)
            IN  (S >= 1 /\ R >= 1) =>
                  /\ Count(jader_out.df.rows, LAMBDA o : o[EventCol.case_id] = c) = S * R
                  /\ \A n \in {<<"D", "1">>, <<"D", "2">>}, r \in {<<"R", "1">>, <<"R", "2">>} :
                        Count(jader_out.df.rows,
                              LAMBDA o : o[EventCol.case_id] = c /\ o[EventCol.primary_suspect_drug] = n
                                         /\ o[EventCol.reaction_pt] = r)
                        = SuspectedRowsOf(c, n)
                          * Count(reac_df.rows, LAMBDA x : x[JaderCol.id] = c /\ x[JaderCol.reaction] = r)

\* C4: every output row, of the orchestrator's module and of the package's,
\* comes from a Drug row whose characterization is exactly "Suspected" and
\* whose case id is not null.
C4_OnlySuspected ==
    (jader_pc # "input" /\ jader_out.raised = NoError) =>
        \A k \in 1..Len(jader_out.df.rows) :
            LET o == jader_out.df.rows[k] IN
            \E i \in 1..Len(drug_df.rows) :
                LET d == drug_df.rows[i] IN
                /\ d[JaderCol.characterization] = Suspected
                /\ d[JaderCol.id] # NULL
                /\ o[EventCol.case_id] = d[JaderCol.id]
                /\ o[EventCol.primary_suspect_drug] = d[JaderCol.drug_name]

\* the orchestrator's module returned rows although the Drug table also holds a
\* lower-case "suspected" row and a Suspected row with a null case id
C4_Witness ==
    /\ jader_pc = "gold"
    /\ jader_out.raised = NoError
    /\ jader_out.df.rows # <<>>
    /\ \E i \in 1..Len(drug_df.rows) :
          LET d == drug_df.rows[i] IN
          /\ d[JaderCol.characterization] = <<"s">> \o Tail(Suspected)
          /\ DemoRowsOf(d[JaderCol.id]) = 1
          /\ ReacRowsOf(d[JaderCol.id]) >= 1

\* C25: when a table lacks a column the reconstruction needs, the call
\* raises the error of the first check that fails, in the order Demo key,
\* Drug key, Reaction key, Drug characterization, and returns no frame.
C25_MissingColumnErrors ==
    jader_pc # "input" =>
        LET checks ==
                << <<JaderCol.id \in demo_df.columns, "ValueError: demo_df missing key: id">>,
                   <<JaderCol.id \in drug_df.columns, "ValueError: drug_df missing key: id">>,
                   <<JaderCol.id \in reac_df.columns, "ValueError: reac_df missing key: id">>,
                   <<JaderCol.characterization \in drug_df.columns,
                     "ValueError: drug_df missing 'characterization' column">> >>
            failing == {k \in 1..4 : ~checks[k][1]}
        IN  IF failing = {} THEN jader_out.raised = NoError
            ELSE /\ jader_out.raised = checks[CHOOSE k \in failing : \A j \in failing : k <= j][2]
                 /\ jader_out.df = NoDF

\* the Drug table lacked both the key and the characterization, the other
\* two had their keys: the orchestrator's module reported the missing key
C25_Witness ==
    /\ jader_pc = "gold"
    /\ JaderCol.id \in demo_df.columns
    /\ JaderCol.id \in reac_df.columns
    /\ drug_df.columns = {JaderCol.drug_name}
    /\ Len(drug_df.rows) = 1
    /\ jader_out = Raised("ValueError: drug_df missing key: id")

----------------------------------------------------------------------------
(* pipeline_full.py: PipelineOrchestrator and run_full_pipeline *)

MaxRuns == 2
MaxWriteFailures == 1
MaxBronzeChanges == 1

\* what pmda_bronze can hold after an ingestion.  The approvals listing has
\* the five headers of the scraped table
RawHeader ==
    [bronze_approvals |->
        {ApprovalHeader.approval_id, ApprovalHeader.approval_date,
         ApprovalHeader.brand_name_jp, ApprovalHeader.generic_name_jp,
         ApprovalHeader.applicant_name_jp},
     bronze_ref_jan_inn |-> {JanCol.jan_name_jp, JanCol.jan_name_en, JanCol.inn_name_en},
     bronze_jader_demo |->
        {JaderHeader.id, JaderHeader.sex, JaderHeader.age, JaderHeader.reporting_year},
     bronze_jader_drug |->
        {JaderHeader.id, JaderHeader.drug_name, JaderHeader.characterization},
     bronze_jader_reac |-> {JaderHeader.id, JaderHeader.reaction}]

\* the raw rows: product A1 is in the JAN reference (J1), product A2 is not
\* and has a full-width brand name; one case with one drug and one reaction
RawRow ==
    [A1 |-> (ApprovalHeader.approval_id :> <<"1">>)
            @@ (ApprovalHeader.approval_date :> <<"R", "2", ".", "1", ".", "1">>)
            @@ (ApprovalHeader.brand_name_jp :> <<"B">>)
            @@ (ApprovalHeader.generic_name_jp :> <<"G", "1">>)
            @@ (ApprovalHeader.applicant_name_jp :> <<"P">>),
     A2 |-> (ApprovalHeader.approval_id :> <<"2">>)
            @@ (ApprovalHeader.approval_date :> <<"H", "3", "1", ".", "4", ".", "3", "0">>)
            @@ (ApprovalHeader.brand_name_jp :> <<"U+FF22">>)
            @@ (ApprovalHeader.generic_name_jp :> <<"G", "2">>)
            @@ (ApprovalHeader.applicant_name_jp :> <<"P">>),
     J1 |-> (JanCol.jan_name_jp :> <<"G", "1">>) @@ (JanCol.jan_name_en :> <<"g", "1">>)
            @@ (JanCol.inn_name_en :> <<"i", "1">>),
     Demo1 |-> (JaderHeader.id :> <<"1">>) @@ (JaderHeader.sex :> <<"M">>)
               @@ (JaderHeader.age :> <<"2", "0">>)
               @@ (JaderHeader.reporting_year :> <<"2", "0", "2", "0">>),
     Drug1 |-> (JaderHeader.id :> <<"1">>) @@ (JaderHeader.drug_name :> <<"D">>)
               @@ (JaderHeader.characterization :> JaderTerm.suspected),
     Reac1 |-> (JaderHeader.id :> <<"1">>) @@ (JaderHeader.reaction :> <<"R">>)]

\* the contents an ingestion can give each raw table
RawBatches ==
    [bronze_approvals |-> {<<>>, <<RawRow.A1>>, <<RawRow.A2>>, <<RawRow.A1, RawRow.A2>>},
     bronze_ref_jan_inn |-> {<<>>, <<RawRow.J1>>},
     bronze_jader_demo |-> {<<>>, <<RawRow.Demo1>>},
     bronze_jader_drug |-> {<<>>, <<RawRow.Drug1>>},
     bronze_jader_reac |-> {<<>>, <<RawRow.Reac1>>}]

\* a raw table after an ingestion: missing, empty, or one of its contents
Catalogue(t) ==
    {Absent} \cup {Table([columns |-> RawHeader[t], rows |-> rs]) : rs \in RawBatches[t]}

\* refined tables that exist and are empty
EmptySilver(t) ==
    Table([columns |-> IF t = "silver_approvals" THEN SilverApprovalFields
                       ELSE IF t = "silver_jader_demo" THEN {JaderCol.id, JaderCol.sex, JaderCol.age, JaderCol.reporting_year}
                       ELSE IF t = "silver_jader_drug" THEN {JaderCol.id, JaderCol.drug_name, JaderCol.characterization}
                       ELSE {JaderCol.id, JaderCol.reaction},
           rows |-> <<>>])

\* the raw tables of a complete ingestion
FullBronze ==
    [t \in BronzeTables |->
        Table([columns |-> RawHeader[t],
               rows |-> CHOOSE rs \in RawBatches[t] :
                           \A other \in RawBatches[t] : Len(other) <= Len(rs)])]

\* the file a first run can find: the raw tables all missing or all ingested
\* by an earlier run_bronze, the refined tables missing or empty, no curated
\* table
InitialStores ==
    {[t \in Tables |->
        IF t \in BronzeTables THEN (IF ingested THEN FullBronze[t] ELSE Absent)
        ELSE IF t \in SilverTables THEN (IF refined THEN EmptySilver(t) ELSE Absent)
        ELSE Absent] : ingested \in BOOLEAN, refined \in BOOLEAN}

\* the outcomes of the request call_deepseek makes
Replies ==
    {NoContent,
     [raises |-> FALSE, content |-> <<>>],
     [raises |-> FALSE, content |-> <<" ">>],
     [raises |-> FALSE, content |-> <<"x", " ">>]}

\* what _write_table can come to: it returns, or con.execute raises
WriteOutcomes == {NoError, "RuntimeError", "duckdb.Error"}

Init ==
    /\ JaderOff
    /\ UnitsOff
    /\ FetchOff
    /\ SourceOff
    /\ requests = 0
    /\ lookup = NotRun
    /\ ingestion = "none"
    /\ store \in InitialStores
    /\ api_key \in BOOLEAN
    /\ run = 1
    /\ pc = "run_bronze"
    /\ raised = NoError
    /\ con = "open"
    /\ trace = <<>>
    /\ written = {}
    /\ write_errors = {}
    /\ api_replies = <<>>
    /\ faults = 0
    /\ bronze_changes = 0
    /\ prev = NoRun

\* DataFrame.is_empty()
is_empty_never(df) == FALSE

is_empty(df) == Len(df.rows) = 0

\* CREATE TABLE ... AS SELECT that would keep the rows the table has
CreateOrAppend(old, df) ==
    IF old.exists THEN Table([columns |-> df.columns, rows |-> old.df.rows \o df.rows])
    ELSE Table(df)

\* CREATE OR REPLACE TABLE table_name AS SELECT * FROM view_name
CreateOrReplace(old, df) == Table(df)

\* where a run goes when a stage raises or the last stage returns: the
\* finally clause of run_full_pipeline
NoFinally == "done"

OnExit == "close"

\* the outcome of a step that writes nothing
Skipped == [raised |-> NoError, store |-> store, wrote |-> FALSE, write_failed |-> FALSE]

\* the outcome of a step whose transformation raised e
Failed(e) == [raised |-> e, store |-> store, wrote |-> FALSE, write_failed |-> FALSE]

\* _write_table(table_name, df) when its statement comes to w: the exception
\* is logged and raised again
_write_table(table_name, df, w) ==
    IF w = NoError
    THEN [raised |-> NoError,
          store |-> [store EXCEPT ![table_name] = CreateOrReplace(@, df)],
          wrote |-> TRUE, write_failed |-> FALSE]
    ELSE [raised |-> w, store |-> store, wrote |-> FALSE, write_failed |-> TRUE]

\* try: ... except duckdb.Error: logger.warning(...)
ExceptDuckdbError(outcome) ==
    IF outcome.raised = "duckdb.Error" THEN [outcome EXCEPT !.raised = NoError] ELSE outcome

\* the state after a step of stage `stage` on table t with the given outcome
Finish(outcome, t, stage, starts, returns, next_pc) ==
    /\ store' = outcome.store
    /\ written' = IF outcome.wrote THEN written \cup {t} ELSE written
    /\ write_errors' = IF outcome.write_failed THEN write_errors \cup {t} ELSE write_errors
    /\ faults' = IF outcome.write_failed THEN faults + 1 ELSE faults
    /\ raised' = outcome.raised
    /\ pc' = IF outcome.raised # NoError THEN OnExit ELSE next_pc
    /\ trace' = trace
                \o (IF starts THEN << <<stage, "start">> >> ELSE <<>>)
                \o (IF outcome.raised # NoError THEN << <<stage, "raise">> >>
                    ELSE IF returns THEN << <<stage, "return">> >> ELSE <<>>)

\* run_bronze: the connection is handed to the ingestion and reopened.
\* run_bronze_pipeline returns, or what it raises is caught and logged by
\* its decorator, logger.catch, and it returns None; either way it may have
\* loaded tables before.  The ingestions replace at most MaxBronzeChanges raw
\* tables in all
RunBronze ==
    /\ pc = "run_bronze"
    /\ ingestion' \in {"returned", "caught"}
    /\ \E approvals \in Catalogue("bronze_approvals"),
          jan \in Catalogue("bronze_ref_jan_inn"),
          demo \in Catalogue("bronze_jader_demo"),
          drug \in Catalogue("bronze_jader_drug"),
          reac \in Catalogue("bronze_jader_reac") :
          LET loaded == [bronze_approvals |-> approvals, bronze_ref_jan_inn |-> jan,
                         bronze_jader_demo |-> demo, bronze_jader_drug |-> drug,
                         bronze_jader_reac |-> reac]
              changed == Cardinality({t \in BronzeTables : loaded[t] # store[t]})
          IN  /\ bronze_changes + changed <= MaxBronzeChanges
              /\ bronze_changes' = bronze_changes + changed
              /\ store' = [t \in Tables |->
                             IF t \in BronzeTables THEN loaded[t] ELSE store[t]]
    /\ con' = "open"
    /\ trace' = trace \o << <<"run_bronze", "start">>, <<"run_bronze", "return">> >>
    /\ pc' = "silver_approvals"
    /\ UNCHANGED <<api_key, run, raised, written, write_errors, api_replies, faults, prev, requests, lookup>>
    /\ UNCHANGED <<jvars, uvars, svars, avars>>

\* _run_silver_approvals up to the reference lookup
SilverApprovalsLookup ==
    IF ~store["bronze_approvals"].exists \/ ~store["bronze_ref_jan_inn"].exists
    THEN NotRun
    ELSE IF Len(store["bronze_approvals"].df.rows) = 0 THEN NotRun
    ELSE LET approvals_df == store["bronze_approvals"].df
             jan_df == store["bronze_ref_jan_inn"].df
             silver_approvals == normalize_approvals(approvals_df)
             looked == IF Len(jan_df.rows) > 0
                       THEN jan_bridge_lookup(silver_approvals, jan_df)
                       ELSE Returned(WithLiteral(silver_approvals, ApprovalCol.generic_name_en, NULL))
         IN  [skipped |-> FALSE, raised |-> looked.raised, df |-> looked.df]

\* if os.getenv("DEEPSEEK_API_KEY"): the fallback runs
FallbackAlways == TRUE

FallbackEnabled == api_key

\* the answers the translation service can give to the requests of the batch
ReplyChoices(looked) ==
    IF ~looked.skipped /\ looked.raised = NoError /\ FallbackEnabled
    THEN {r \in [1..Len(looked.df.rows) -> Replies] :
             \A i \in 1..Len(looked.df.rows) :
                 i \notin Posted(looked.df) => r[i] = NoContent}
    ELSE {<<>>}

\* how many requests the step posts
RequestsOf(looked) ==
    IF ~looked.skipped /\ looked.raised = NoError /\ FallbackEnabled
    THEN Cardinality(Posted(looked.df))
    ELSE 0

\* _run_silver_approvals from the lookup on: the fallback or the
\* skipped_no_key stamp, then the write
_run_silver_approvals(looked, w, reply) ==
    IF looked.skipped THEN Skipped
    ELSE IF looked.raised # NoError THEN Failed(looked.raised)
    ELSE LET silver_approvals ==
                 IF FallbackEnabled THEN jan_bridge_ai_fallback(looked.df, reply)
                 ELSE IF ApprovalCol._translation_status \notin looked.df.columns
                      THEN WithLiteral(looked.df, ApprovalCol._translation_status, Status.skipped_no_key)
                      ELSE looked.df
         IN  _write_table("silver_approvals", silver_approvals, w)

SilverApprovals ==
    /\ pc = "silver_approvals"
    /\ \E looked \in {SilverApprovalsLookup} :
       \E w \in WriteOutcomes, reply \in ReplyChoices(looked) :
          /\ w = NoError \/ faults < MaxWriteFailures
          /\ \E outcome \in {_run_silver_approvals(looked, w, reply)} :
                Finish(outcome, "silver_approvals", "run_silver",
                       TRUE, FALSE, "silver_jader_demo")
          /\ api_replies' = reply
          /\ requests' = RequestsOf(looked)
          /\ lookup' = looked
    /\ UNCHANGED <<api_key, run, ingestion, con, prev, bronze_changes>>
    /\ UNCHANGED <<jvars, uvars, svars, avars>>

\* one table of _run_silver_jader: a raw table that cannot be read counts as
\* an empty frame
_run_silver_jader(bronze, silver, normalized, w) ==
    IF ~store[bronze].exists \/ is_empty(store[bronze].df) THEN Skipped
    ELSE IF normalized.raised # NoError THEN Failed(normalized.raised)
    ELSE _write_table(silver, normalized.df, w)

SilverJaderDemo ==
    /\ pc = "silver_jader_demo"
    /\ \E w \in WriteOutcomes :
          /\ w = NoError \/ faults < MaxWriteFailures
          /\ \E outcome \in {_run_silver_jader("bronze_jader_demo", "silver_jader_demo",
                                  normalize_jader_demo(store["bronze_jader_demo"].df), w)} :
                Finish(outcome, "silver_jader_demo", "run_silver",
                       FALSE, FALSE, "silver_jader_drug")
    /\ UNCHANGED <<api_key, run, ingestion, con, api_replies, prev, bronze_changes, requests, lookup>>
    /\ UNCHANGED <<jvars, uvars, svars, avars>>

SilverJaderDrug ==
    /\ pc = "silver_jader_drug"
    /\ \E w \in WriteOutcomes :
          /\ w = NoError \/ faults < MaxWriteFailures
          /\ \E outcome \in {_run_silver_jader("bronze_jader_drug", "silver_jader_drug",
                                  normalize_jader_drug(store["bronze_jader_drug"].df), w)} :
                Finish(outcome, "silver_jader_drug", "run_silver",
                       FALSE, FALSE, "silver_jader_reac")
    /\ UNCHANGED <<api_key, run, ingestion, con, api_replies, prev, bronze_changes, requests, lookup>>
    /\ UNCHANGED <<jvars, uvars, svars, avars>>

SilverJaderReac ==
    /\ pc = "silver_jader_reac"
    /\ \E w \in WriteOutcomes :
          /\ w = NoError \/ faults < MaxWriteFailures
          /\ \E outcome \in {_run_silver_jader("bronze_jader_reac", "silver_jader_reac",
                                  normalize_jader_reac(store["bronze_jader_reac"].df), w)} :
                Finish(outcome, "silver_jader_reac", "run_silver",
                       FALSE, TRUE, "gold_approvals")
    /\ UNCHANGED <<api_key, run, ingestion, con, api_replies, prev, bronze_changes, requests, lookup>>
    /\ UNCHANGED <<jvars, uvars, svars, avars>>

\* the approvals block of run_gold: a duckdb.Error raised anywhere in the
\* block, by the read or by the write, is caught and logged as a missing table
gold_approvals(w) ==
    IF ~store["silver_approvals"].exists THEN Skipped
    ELSE IF is_empty(store["silver_approvals"].df) THEN Skipped
    ELSE LET gold == transform_approvals_gold(store["silver_approvals"].df)
         IN  IF gold.raised # NoError THEN Failed(gold.raised)
             ELSE ExceptDuckdbError(_write_table("pmda_approvals", gold.df, w))

GoldApprovals ==
    /\ pc = "gold_approvals"
    /\ \E w \in WriteOutcomes :
          /\ w = NoError \/ faults < MaxWriteFailures
          /\ \E outcome \in {gold_approvals(w)} :
                Finish(outcome, "pmda_approvals", "run_gold", TRUE, FALSE, "gold_jader")
    /\ UNCHANGED <<api_key, run, ingestion, con, api_replies, prev, bronze_changes, requests, lookup>>
    /\ UNCHANGED <<jvars, uvars, svars, avars>>

\* the reconstruction block of run_gold
gold_jader(w) ==
    IF \E t \in {"silver_jader_demo", "silver_jader_drug", "silver_jader_reac"} :
          ~store[t].exists
    THEN Skipped
    ELSE LET demo == store["silver_jader_demo"].df
             drug == store["silver_jader_drug"].df
             reac == store["silver_jader_reac"].df
         IN  IF is_empty(demo) \/ is_empty(drug) \/ is_empty(reac) THEN Skipped
             ELSE LET gold == transform_jader_gold(demo, drug, reac)
                  IN  IF gold.raised # NoError THEN Failed(gold.raised)
                      ELSE ExceptDuckdbError(
                               _write_table("pmda_adverse_events", gold.df, w))

GoldJader ==
    /\ pc = "gold_jader"
    /\ \E w \in WriteOutcomes :
          /\ w = NoError \/ faults < MaxWriteFailures
          /\ \E outcome \in {gold_jader(w)} :
                Finish(outcome, "pmda_adverse_events", "run_gold", FALSE, TRUE, OnExit)
    /\ UNCHANGED <<api_key, run, ingestion, con, api_replies, prev, bronze_changes, requests, lookup>>
    /\ UNCHANGED <<jvars, uvars, svars, avars>>

\* finally: orchestrator.close()
Close ==
    /\ pc = "close"
    /\ con' = "closed"
    /\ trace' = Append(trace, <<"close", "return">>)
    /\ pc' = "done"
    /\ UNCHANGED <<store, api_key, run, ingestion, raised, written, write_errors, api_replies,
                   faults, bronze_changes, prev, requests, lookup>>
    /\ UNCHANGED <<jvars, uvars, svars, avars>>

\* run_full_pipeline is called again: a new orchestrator connects to the file
\* the last run left
NextRun ==
    /\ pc = "done"
    /\ run < MaxRuns
    /\ run' = run + 1
    /\ pc' = "run_bronze"
    /\ raised' = NoError
    /\ con' = "open"
    /\ trace' = <<>>
    /\ written' = {}
    /\ write_errors' = {}
    /\ api_replies' = <<>>
    /\ requests' = 0
    /\ lookup' = NotRun
    /\ ingestion' = "none"
    /\ prev' = [ended |-> TRUE,
                bronze |-> [t \in BronzeTables |-> store[t]],
                gold |-> [t \in GoldTables |-> store[t]],
                replies |-> api_replies,
                write_errors |-> write_errors]
    /\ UNCHANGED <<store, api_key, faults, bronze_changes>>
    /\ UNCHANGED <<jvars, uvars, svars, avars>>

Next ==
    \/ RunBronze
    \/ SilverApprovals
    \/ SilverJaderDemo
    \/ SilverJaderDrug
    \/ SilverJaderReac
    \/ GoldApprovals
    \/ GoldJader
    \/ Close
    \/ NextRun

Spec == Init /\ [][Next]_vars

----------------------------------------------------------------------------
(* The orchestrator's claims *)

\* the raw tables and the curated tables of the store
Bronze == [t \in BronzeTables |-> store[t]]
Gold == [t \in GoldTables |-> store[t]]

\* a table a stage cannot use: it is absent, or it has no rows
Unavailable(t) == ~store[t].exists \/ Len(store[t].df.rows) = 0

\* C5: the curated approvals table is a strict projection of the refined
\* one: when the curated stage has written pmda_approvals, it has one row per
\* refined row, with exactly the ten canonical columns, and each cell is the
\* refined row's cell unchanged (coreason_id and approval_date included), or
\* null when the refined table lacks the column.
C5_StrictProjection ==
    "pmda_approvals" \in written =>
        LET refined == store["silver_approvals"].df
            curated == store["pmda_approvals"].df
        IN  /\ curated.columns = GoldApprovalColumns
            /\ Len(curated.rows) = Len(refined.rows)
            /\ \A i \in 1..Len(curated.rows) : \A c \in GoldApprovalColumns :
                  curated.rows[i][c] =
                      IF c \in refined.columns THEN refined.rows[i][c] ELSE NULL

C7_PartialAvailability ==
    [][/\ (pc = "silver_approvals" /\ Unavailable("bronze_approvals"))
            => (pc' = "silver_jader_demo" /\ store' = store /\ written' = written
                /\ raised' = NoError)
       /\ (pc = "silver_jader_demo" /\ Unavailable("bronze_jader_demo"))
            => (pc' = "silver_jader_drug" /\ store' = store /\ written' = written
                /\ raised' = NoError)
       /\ (pc = "silver_jader_drug" /\ Unavailable("bronze_jader_drug"))
            => (pc' = "silver_jader_reac" /\ store' = store /\ written' = written
                /\ raised' = NoError)
       /\ (pc = "silver_jader_reac" /\ Unavailable("bronze_jader_reac"))
            => (pc' = "gold_approvals" /\ store' = store /\ written' = written
                /\ raised' = NoError)
       /\ (pc = "gold_approvals" /\ Unavailable("silver_approvals"))
            => (pc' = "gold_jader" /\ store' = store /\ written' = written
                /\ raised' = NoError)
       /\ (pc = "gold_jader"
           /\ \E t \in {"silver_jader_demo", "silver_jader_drug", "silver_jader_reac"} :
                 Unavailable(t))
            => (pc' = "close" /\ store' = store /\ written' = written
                /\ raised' = NoError
                /\ trace'[Len(trace')] = <<"run_gold", "return">>)
      ]_vars

\* a run that ended normally with the raw Demo table empty: its refined table
\* and the adverse events were not written, everything else was
C7_Witness ==
    /\ pc = "done" /\ raised = NoError /\ write_errors = {}
    /\ store["bronze_jader_demo"].exists /\ Unavailable("bronze_jader_demo")
    /\ written = {"silver_approvals", "silver_jader_drug", "silver_jader_reac",
                  "pmda_approvals"}

\* C8: a write that fails is fatal: whenever _write_table has raised in the
\* run, the exception is propagating out of the run.
C8_WriteFailureFatal == write_errors # {} => raised # NoError

\* the traces of a run: it completes, or run_silver raises, or run_gold raises
RunTraces ==
    [complete |->
        << <<"run_bronze", "start">>, <<"run_bronze", "return">>,
           <<"run_silver", "start">>, <<"run_silver", "return">>,
           <<"run_gold", "start">>, <<"run_gold", "return">>, <<"close", "return">> >>,
     silver_raises |->
        << <<"run_bronze", "start">>, <<"run_bronze", "return">>,
           <<"run_silver", "start">>, <<"run_silver", "raise">>, <<"close", "return">> >>,
     gold_raises |->
        << <<"run_bronze", "start">>, <<"run_bronze", "return">>,
           <<"run_silver", "start">>, <<"run_silver", "return">>,
           <<"run_gold", "start">>, <<"run_gold", "raise">>, <<"close", "return">> >>]

StatusValues == {Status.lookup_success, Status.ai_translated, Status.failed, Status.skipped_no_key}

\* C10: the refined approvals table a run writes has the translation-status
\* column, and every row's status is one of the four values.
C10_StatusAlways ==
    "silver_approvals" \in written =>
        LET refined == store["silver_approvals"].df
        IN  /\ ApprovalCol._translation_status \in refined.columns
            /\ \A i \in 1..Len(refined.rows) :
                  refined.rows[i][ApprovalCol._translation_status] \in StatusValues

----------------------------------------------------------------------------
(* The reference bridge in the refined stage *)

\* the refined approvals table of the run, and the batch as the reference
\* lookup left it
Refined == store["silver_approvals"].df
Looked == lookup.df

\* row i of the batch got its target name from the reference lookup
Resolved(i) == Looked.rows[i][ApprovalCol.generic_name_en] # NULL

\* C26: in a run whose ingestion raised, the refined and the curated stage
\* are not started and nothing is written; the connection is reopened by
\* run_bronze and the run ends with the exception raised and the connection
\* closed.
C26_IngestionFailureAborts ==
    ingestion = "caught" =>
        /\ \A i \in 1..Len(trace) : trace[i][1] \notin {"run_silver", "run_gold"}
        /\ written = {}
        /\ pc # "done" => con = "open"
        /\ pc = "done" => (raised # NoError /\ con = "closed")

\* C30: when a run has ended without an exception and without a failed
\* write, every refined and every curated table that holds rows was written
\* by that run; none is left over from an earlier run.
C30_NoStaleDerivedData ==
    (pc = "done" /\ raised = NoError /\ write_errors = {}) =>
        \A t \in SilverTables \cup GoldTables :
            (store[t].exists /\ store[t].df.rows # <<>>) => t \in written

\* C11: every row the reference lookup resolved has status lookup_success in
\* the refined table, with or without the credential, and keeps the target
\* name the lookup gave it.
C11_ResolvedIsLookupSuccess ==
    "silver_approvals" \in written =>
        \A i \in 1..Len(Looked.rows) :
            Resolved(i) =>
                /\ ApprovalCol._translation_status \in Refined.columns
                /\ Refined.rows[i][ApprovalCol._translation_status] = Status.lookup_success
                /\ Refined.rows[i][ApprovalCol.generic_name_en]
                      = Looked.rows[i][ApprovalCol.generic_name_en]

\* C12: without the credential no request is posted, and every row the
\* lookup left unresolved is written with status skipped_no_key and a null
\* target name.
C12_NoKeyNoRequest ==
    ~api_key =>
        /\ requests = 0
        /\ "silver_approvals" \in written =>
              \A i \in 1..Len(Looked.rows) :
                  ~Resolved(i) =>
                      /\ ApprovalCol._translation_status \in Refined.columns
                      /\ Refined.rows[i][ApprovalCol._translation_status]
                            = Status.skipped_no_key
                      /\ Refined.rows[i][ApprovalCol.generic_name_en] = NULL

\* a run without the credential wrote a batch with an unresolved row that
\* has a source name to translate
C12_Witness ==
    /\ ~api_key
    /\ "silver_approvals" \in written
    /\ \E i \in 1..Len(Looked.rows) : NeedsRequest(Looked, i)
    /\ \E i \in 1..Len(Looked.rows) : Resolved(i)

\* the text the call for row i came back with: empty when no request was
\* made, when the request raised, and when the answer has no text
ResultOf(i) ==
    IF i \in Posted(Looked) /\ ~api_replies[i].raises /\ api_replies[i].content # NULL
    THEN Strip(api_replies[i].content)
    ELSE <<>>

\* C13: with the credential, an unresolved row whose call returned a
\* non-empty result has that result as target name and status ai_translated;
\* one whose call raised or returned an empty result, or that has no source
\* name, has a null target name and status failed; and nothing but a table
\* write makes the run raise.
C13_CallOutcome ==
    /\ raised # NoError => write_errors # {}
    /\ (api_key /\ "silver_approvals" \in written) =>
          \A i \in 1..Len(Looked.rows) :
              ~Resolved(i) =>
                  IF ResultOf(i) # <<>>
                  THEN /\ Refined.rows[i][ApprovalCol.generic_name_en] = ResultOf(i)
                       /\ Refined.rows[i][ApprovalCol._translation_status]
                             = Status.ai_translated
                  ELSE /\ Refined.rows[i][ApprovalCol.generic_name_en] = NULL
                       /\ Refined.rows[i][ApprovalCol._translation_status] = Status.failed

\* C14: the refined table has the rows of the batch in their order, and an
\* unresolved row's target name and status are the same under every other
\* assignment of answers to the batch that gives this row the same answer.
C14_RowIsolation ==
    (api_key /\ "silver_approvals" \in written) =>
        /\ Len(Refined.rows) = Len(Looked.rows)
        /\ \A i \in 1..Len(Looked.rows) :
              /\ \A c \in Looked.columns \ {ApprovalCol.generic_name_en} :
                    Refined.rows[i][c] = Looked.rows[i][c]
              /\ ~Resolved(i) =>
                    \A others \in ReplyChoices(lookup) :
                        others[i] = api_replies[i] =>
                            LET alone == jan_bridge_ai_fallback(Looked, others).rows[i]
                            IN  /\ alone[ApprovalCol.generic_name_en]
                                      = Refined.rows[i][ApprovalCol.generic_name_en]
                                /\ alone[ApprovalCol._translation_status]
                                      = Refined.rows[i][ApprovalCol._translation_status]

\* a batch of two unresolved rows was written: the call of the first failed
\* and the call of the second gave a translation
C14_Witness ==
    /\ api_key
    /\ "silver_approvals" \in written
    /\ Len(Looked.rows) = 2
    /\ ~Resolved(1) /\ ~Resolved(2)
    /\ api_replies[1].raises
    /\ Refined.rows[1][ApprovalCol._translation_status] = Status.failed
    /\ Refined.rows[2][ApprovalCol._translation_status] = Status.ai_translated
    /\ Refined.rows[2][ApprovalCol.generic_name_en] = <<"x">>

----------------------------------------------------------------------------
(* The transformations of the refined stage, each called on its own *)

MaxEraYear == 3
MaxUnitRows == 2

\* the arguments the calls are made with
UnitInputs ==
    LET \* a header as a listing can spell it: an ideographic space after
        \* the first character and a space at the end
        Spaced(h) == <<h[1], "U+3000">> \o Tail(h) \o <<" ">>
        Styled(h, spaced) == IF spaced THEN Spaced(h) ELSE h
        EraSpellings ==
            [Reiwa |-> {<<"R", "e", "i", "w", "a">>, <<"R">>},
             Heisei |-> {<<"H", "e", "i", "s", "e", "i">>, <<"H">>},
             Showa |-> {<<"S", "h", "o", "w", "a">>, <<"S">>},
             Taisho |-> {<<"T", "a", "i", "s", "h", "o">>, <<"T">>},
             Meiji |-> {<<"M", "e", "i", "j", "i">>, <<"M">>}]
        Gannen == <<"G", "a", "n", "n", "e", "n">>
        \* the names of the eras in kanji
        EraKanji ==
            [Reiwa |-> <<"U+4EE4", "U+548C">>, Heisei |-> <<"U+5E73", "U+6210">>,
             Showa |-> <<"U+662D", "U+548C">>, Taisho |-> <<"U+5927", "U+6B63">>,
             Meiji |-> <<"U+660E", "U+6CBB">>]
        \* the kanji for first (year), year, month and day
        Kanji == [first |-> "U+5143", year |-> "U+5E74", month |-> "U+6708", day |-> "U+65E5"]
        Months == {<<"0">>, <<"2">>, <<"4">>, <<"1", "2">>, <<"1", "3">>}
        Days == {<<"0">>, <<"1">>, <<"2", "8">>, <<"2", "9">>, <<"3", "0">>, <<"3", "1">>,
                 <<"2", "1", "4", "7", "4", "8", "3", "6", "4", "7">>,
                 <<"2", "1", "4", "7", "4", "8", "3", "6", "4", "8">>}
        \* the number a month or a day is written as, 100 for one of more
        \* than two digits
        Written(t) == IF Len(t) <= 2 THEN ParseInt(t) ELSE 100
        \* what can follow the era year: nothing, a month, a month and a
        \* day, between separators of several kinds
        Rests ==
            {[text |-> <<>>, month |-> 1, day |-> 1],
             [text |-> <<" ", ".", " ", "5">>, month |-> 5, day |-> 1],
             [text |-> <<" ", ".", " ", "5", " ", ".", " ", "2">>, month |-> 5, day |-> 2],
             [text |-> <<"/", "/", "5", "/", "/", "2">>, month |-> 5, day |-> 2],
             [text |-> <<Kanji.year, "5", Kanji.month, "2", Kanji.day>>, month |-> 5, day |-> 2]}
        \* the Gregorian year in parentheses, without and with the kanji
        \* for year inside, or no parentheses
        Asides(y) ==
            {<<>>, <<" ", "(">> \o ZeroPad(2018 + y, 4) \o <<")">>,
             <<"(">> \o ZeroPad(2018 + y, 4) \o <<Kanji.year, ")">>}
        ApprovalRows ==
            {(ApprovalHeader.approval_id :> i) @@ (ApprovalHeader.approval_date :> d)
               @@ (ApprovalHeader.brand_name_jp :> <<"B">>) :
                i \in {<<"1">>, <<"U+FF11">>, NULL, <<>>, <<" ">>,
                       <<"1", "2", "0", "2", "0", "-", "0", "1", "-", "0", "1">>},
                d \in {<<"R", "2", ".", "1", ".", "1">>, <<"x">>, NULL}}
        NamedRows ==
            {(ApprovalCol.approval_id :> <<"1">>) @@ (ApprovalCol.generic_name_jp :> g) :
                g \in {<<"G", "1">>, <<"G", "2">>, NULL}}
        JanRows ==
            {(JanCol.jan_name_jp :> jp) @@ (JanCol.jan_name_en :> jan) @@ (JanCol.inn_name_en :> inn) :
                jp \in {<<"G", "1">>, <<"G", "2">>, NULL},
                jan \in {<<"j">>, NULL}, inn \in {<<"i">>, NULL}}
        JaderMappings ==
            [normalize_jader_demo |-> DEMO_MAPPING, normalize_jader_drug |-> DRUG_MAPPING,
             normalize_jader_reac |-> REAC_MAPPING]
        JaderValue(h) == IF h = JaderHeader.characterization THEN JaderTerm.suspected
                         ELSE <<"U+FF11">>
    IN  [dates |->
            UNION {
            {UnitCall("convert_japanese_date_to_iso",
                      w \o sep \o (IF y = 0 THEN Gannen ELSE ZeroPad(y, 1))
                        \o (IF md THEN <<".", "5", ".", "2">> ELSE <<>>),
                      NoDF, NoDF,
                      [family |-> "era",
                       era |-> e, era_year |-> IF y = 0 THEN 1 ELSE y, gannen |-> y = 0,
                       month |-> IF md THEN 5 ELSE 1, day |-> IF md THEN 2 ELSE 1]) :
                w \in EraSpellings[e],
                sep \in {<<>>, <<" ">>}, y \in 0..MaxEraYear, md \in BOOLEAN} :
            e \in DOMAIN EraSpellings}
            \cup
            {UnitCall("convert_japanese_date_to_iso",
                      <<"R">> \o ZeroPad(y, 1) \o <<".">> \o m \o <<".">> \o d,
                      NoDF, NoDF,
                      [family |-> "calendar",
                       era |-> "Reiwa", era_year |-> y, gannen |-> FALSE,
                       month |-> Written(m), day |-> Written(d)]) :
                y \in 2..MaxEraYear, m \in Months, d \in Days}
            \cup
            {UnitCall("convert_japanese_date_to_iso",
                      EraKanji[e] \o (IF y = 0 THEN <<Kanji.first>> ELSE ZeroPad(y, 1))
                        \o <<Kanji.year, "5", Kanji.month, "2", Kanji.day>>,
                      NoDF, NoDF,
                      [family |-> "native",
                       era |-> e, era_year |-> IF y = 0 THEN 1 ELSE y, gannen |-> y = 0,
                       month |-> 5, day |-> 2]) :
                e \in DOMAIN EraKanji, y \in 0..MaxEraYear}
            \cup
            UNION {
            {UnitCall("convert_japanese_date_to_iso",
                      <<"R", "e", "i", "w", "a", " ">> \o ZeroPad(y, 1) \o a \o r.text,
                      NoDF, NoDF,
                      [family |-> "aside",
                       era |-> "Reiwa", era_year |-> y, gannen |-> FALSE,
                       month |-> r.month, day |-> r.day]) :
                a \in Asides(y), r \in Rests} :
            y \in 1..MaxEraYear},
         approvals |->
            {UnitCall("normalize_approvals", NULL,
                      [columns |-> {Styled(h, spaced) : h \in DOMAIN r0},
                       rows |-> [i \in 1..Len(rs) |->
                                   [c \in {Styled(h, spaced) : h \in DOMAIN r0} |->
                                      rs[i][CHOOSE h \in DOMAIN r0 : Styled(h, spaced) = c]]]],
                      NoDF, NoDate) :
                rs \in SeqsUpTo(ApprovalRows, MaxUnitRows), spaced \in BOOLEAN,
                r0 \in {CHOOSE r \in ApprovalRows : TRUE}},
         lookups |->
            {UnitCall("jan_bridge_lookup", NULL,
                      [columns |-> {ApprovalCol.approval_id, ApprovalCol.generic_name_jp},
                       rows |-> rs],
                      [columns |-> {JanCol.jan_name_jp, JanCol.jan_name_en, JanCol.inn_name_en},
                       rows |-> js],
                      NoDate) :
                rs \in SeqsUpTo(NamedRows, MaxUnitRows), js \in SeqsUpTo(JanRows, MaxUnitRows)},
         jader |->
            UNION {
            {UnitCall(fn, NULL,
                      [columns |-> {Styled(h, spaced) : h \in hs},
                       rows |-> [i \in 1..n |->
                                   [c \in {Styled(h, spaced) : h \in hs} |->
                                      JaderValue(CHOOSE h \in hs : Styled(h, spaced) = c)]]],
                      NoDF, NoDate) :
                hs \in SUBSET {m[1] : m \in JaderMappings[fn]},
                spaced \in BOOLEAN, n \in 0..MaxUnitRows} :
            fn \in DOMAIN JaderMappings}]

InitUnits ==
    /\ unit_call \in UnitInputs.dates \cup UnitInputs.approvals
                     \cup UnitInputs.lookups \cup UnitInputs.jader
    /\ unit_out = Pending
    /\ JaderOff
    /\ OrchestratorOff
    /\ FetchOff
    /\ SourceOff

\* what a call returns
UnitResult(call) ==
    LET Of(outcome) == [done |-> TRUE, raised |-> outcome.raised, df |-> outcome.df,
                        text |-> NULL]
    IN  CASE call.fn = "convert_japanese_date_to_iso" ->
                [done |-> TRUE, raised |-> date_raises(call.text), df |-> NoDF,
                 text |-> IF date_raises(call.text) # NoError THEN NULL
                          ELSE convert_japanese_date_to_iso(call.text)]
          [] call.fn = "normalize_approvals" -> Of(Returned(normalize_approvals(call.df)))
          [] call.fn = "jan_bridge_lookup" -> Of(jan_bridge_lookup(call.df, call.jan))
          [] call.fn = "normalize_jader_demo" -> Of(normalize_jader_demo(call.df))
          [] call.fn = "normalize_jader_drug" -> Of(normalize_jader_drug(call.df))
          [] call.fn = "normalize_jader_reac" -> Of(normalize_jader_reac(call.df))

CallConvertDate ==
    /\ unit_call.fn = "convert_japanese_date_to_iso"
    /\ ~unit_out.done
    /\ unit_out' = UnitResult(unit_call)
    /\ UNCHANGED <<unit_call, jvars, ovars, svars, avars>>

CallNormalizeApprovals ==
    /\ unit_call.fn = "normalize_approvals"
    /\ ~unit_out.done
    /\ unit_out' = UnitResult(unit_call)
    /\ UNCHANGED <<unit_call, jvars, ovars, svars, avars>>

CallJanBridgeLookup ==
    /\ unit_call.fn = "jan_bridge_lookup"
    /\ ~unit_out.done
    /\ unit_out' = UnitResult(unit_call)
    /\ UNCHANGED <<unit_call, jvars, ovars, svars, avars>>

CallNormalizeJader ==
    /\ unit_call.fn \in {"normalize_jader_demo", "normalize_jader_drug", "normalize_jader_reac"}
    /\ ~unit_out.done
    /\ unit_out' = UnitResult(unit_call)
    /\ UNCHANGED <<unit_call, jvars, ovars, svars, avars>>

NextUnits ==
    \/ CallConvertDate
    \/ CallNormalizeApprovals
    \/ CallJanBridgeLookup
    \/ CallNormalizeJader

SpecUnits == InitUnits /\ [][NextUnits]_vars

----------------------------------------------------------------------------
(* Properties of the transformations called on their own *)

\* the call of fn has returned a frame
Returns(fn) == unit_call.fn = fn /\ unit_out.done /\ unit_out.raised = NoError

\* the rows of a frame, as a set
RowSet(df) == {df.rows[i] : i \in 1..Len(df.rows)}

\* the reference rows whose name is the source name of an output row
Matching(o) ==
    {r \in RowSet(unit_call.jan) :
        /\ o[ApprovalCol.generic_name_jp] # NULL
        /\ r[JanCol.jan_name_jp] = o[ApprovalCol.generic_name_jp]}

\* C15: in the frame jan_bridge_lookup returns, a record whose source name is
\* the name of a reference row has that row's INN name when it is not null
\* and else its JAN name; a record whose source name matches no reference row
\* has a null target name; every record is in the output, once and in order
\* when the reference names are distinct.
C15_LookupPrefersInn ==
    Returns("jan_bridge_lookup") =>
        /\ \A o \in RowSet(unit_out.df) :
              IF Matching(o) = {}
              THEN o[ApprovalCol.generic_name_en] = NULL
              ELSE \E r \in Matching(o) :
                      o[ApprovalCol.generic_name_en] =
                          IF r[JanCol.inn_name_en] # NULL THEN r[JanCol.inn_name_en]
                          ELSE r[JanCol.jan_name_en]
        /\ \A a \in RowSet(unit_call.df) :
              \E o \in RowSet(unit_out.df) : \A c \in unit_call.df.columns : o[c] = a[c]
        /\ (\A i, j \in 1..Len(unit_call.jan.rows) :
                 unit_call.jan.rows[i][JanCol.jan_name_jp]
                     = unit_call.jan.rows[j][JanCol.jan_name_jp] => i = j)
             => /\ Len(unit_out.df.rows) = Len(unit_call.df.rows)
                /\ \A i \in 1..Len(unit_call.df.rows) : \A c \in unit_call.df.columns :
                      unit_out.df.rows[i][c] = unit_call.df.rows[i][c]

\* a lookup of two records against two reference rows: the first record
\* matches a row with both names, the second a row with a JAN name only
C15_Witness ==
    /\ Returns("jan_bridge_lookup")
    /\ Len(unit_out.df.rows) = 2
    /\ unit_out.df.rows[1][JanCol.inn_name_en] = <<"i">>
    /\ unit_out.df.rows[1][JanCol.jan_name_en] = <<"j">>
    /\ unit_out.df.rows[1][ApprovalCol.generic_name_en] = <<"i">>
    /\ unit_out.df.rows[2][JanCol.inn_name_en] = NULL
    /\ unit_out.df.rows[2][ApprovalCol.generic_name_en] = <<"j">>

\* a cell as it goes into the hashed string: the empty string when null
OrEmpty(v) == IF v = NULL THEN <<>> ELSE v

\* C16: the coreason_id of every row normalize_approvals returns is the
\* SHA-256 of "PMDA", the row's normalized approval id and its ISO approval
\* date, a null one taken as the empty string; rows with the same id and
\* date have the same coreason_id.
C16_ContentIdentifier ==
    Returns("normalize_approvals") =>
        /\ \A o \in RowSet(unit_out.df) :
              o[ApprovalCol.coreason_id] =
                  sha256(<<"P", "M", "D", "A">> \o OrEmpty(o[ApprovalCol.approval_id])
                                             \o OrEmpty(o[ApprovalCol.approval_date]))
        /\ \A o1, o2 \in RowSet(unit_out.df) :
              (/\ o1[ApprovalCol.approval_id] = o2[ApprovalCol.approval_id]
               /\ o1[ApprovalCol.approval_date] = o2[ApprovalCol.approval_date])
              => o1[ApprovalCol.coreason_id] = o2[ApprovalCol.coreason_id]

\* two records whose raw ids differ in width only, both without a date that
\* can be read: the same normalized id, a null date, one identifier
C16_Witness ==
    /\ Returns("normalize_approvals")
    /\ Len(unit_call.df.rows) = 2
    /\ \E c \in unit_call.df.columns :
          /\ unit_call.df.rows[1][c] = <<"1">>
          /\ unit_call.df.rows[2][c] = <<"U+FF11">>
    /\ unit_out.df.rows[1][ApprovalCol.approval_id] = <<"1">>
    /\ unit_out.df.rows[2][ApprovalCol.approval_id] = <<"1">>
    /\ unit_out.df.rows[1][ApprovalCol.approval_date] = NULL
    /\ unit_out.df.rows[2][ApprovalCol.approval_date] = NULL
    /\ unit_out.df.rows[1][ApprovalCol.coreason_id] = unit_out.df.rows[2][ApprovalCol.coreason_id]

\* C17: two rows of the frame normalize_approvals returns whose (approval id,
\* approval date) pairs differ have different coreason_ids, the hash being
\* injective.
C17_IdentifierInjective ==
    Returns("normalize_approvals") =>
        \A o1, o2 \in RowSet(unit_out.df) :
            (\/ o1[ApprovalCol.approval_id] # o2[ApprovalCol.approval_id]
             \/ o1[ApprovalCol.approval_date] # o2[ApprovalCol.approval_date])
            => o1[ApprovalCol.coreason_id] # o2[ApprovalCol.coreason_id]

\* the rename table of the case-table normalizer that was called
MappingOf(fn) ==
    CASE fn = "normalize_jader_demo" -> DEMO_MAPPING
      [] fn = "normalize_jader_drug" -> DRUG_MAPPING
      [] fn = "normalize_jader_reac" -> REAC_MAPPING

JaderNormalizers == {"normalize_jader_demo", "normalize_jader_drug", "normalize_jader_reac"}

\* the input has a column for the source header h
HasHeader(h) == \E c \in unit_call.df.columns : RemoveSpaces(c) = h

\* C18: a case-table normalizer called on a frame without the identifier
\* column raises and returns no frame; called on a frame with it, it returns
\* a frame with every canonical column of its rename table, the rows of the
\* input, a null in every row of a column the input lacks, and the
\* identifier of the input.
C18_MissingColumns ==
    (unit_call.fn \in JaderNormalizers /\ unit_out.done) =>
        IF ~HasHeader(JaderHeader.id)
        THEN unit_out.raised # NoError /\ unit_out.df = NoDF
        ELSE /\ unit_out.raised = NoError
             /\ Len(unit_out.df.rows) = Len(unit_call.df.rows)
             /\ \A m \in MappingOf(unit_call.fn) :
                   /\ m[2] \in unit_out.df.columns
                   /\ ~HasHeader(m[1]) => \A o \in RowSet(unit_out.df) : o[m[2]] = NULL
             /\ \A o \in RowSet(unit_out.df) : o[JaderCol.id] = <<"1">>

\* the Drug normalizer returned two rows for a frame that has the identifier
\* and the drug name but no characterization column
C18_Witness ==
    /\ unit_call.fn = "normalize_jader_drug"
    /\ unit_out.done /\ unit_out.raised = NoError
    /\ HasHeader(JaderHeader.id) /\ HasHeader(JaderHeader.drug_name)
    /\ ~HasHeader(JaderHeader.characterization)
    /\ Len(unit_out.df.rows) = 2
    /\ unit_out.df.rows[1][JaderCol.characterization] = NULL
    /\ unit_out.df.rows[1][JaderCol.drug_name] = <<"1">>

\* the frame with the white space taken out of its column names
CleanHeaders(df) == Rename(df, {<<c, RemoveSpaces(c)>> : c \in df.columns})

\* C19: what a normalizer of a raw table (normalize_approvals and the three
\* case-table normalizers) returns for a frame is what it returns for the
\* same frame with the white space removed from the column names: a column
\* whose name is a rename-table key but for white space is renamed and its
\* values kept.
C19_HeaderWhitespace ==
    (unit_call.fn \in JaderNormalizers \cup {"normalize_approvals"} /\ unit_out.done) =>
        unit_out = UnitResult([unit_call EXCEPT !.df = CleanHeaders(@)])

C21_CalendarDate ==
    (/\ unit_call.fn = "convert_japanese_date_to_iso"
     /\ unit_call.date.family = "calendar"
     /\ unit_out.done) =>
        LET d == unit_call.date
            y == 2018 + d.era_year
            leap == (y % 4 = 0 /\ y % 100 # 0) \/ y % 400 = 0
            length == IF d.month = 2 THEN (IF leap THEN 29 ELSE 28)
                      ELSE IF d.month \in {4, 6, 9, 11} THEN 30 ELSE 31
            valid == d.month \in 1..12 /\ d.day \in 1..length
        IN  /\ unit_out.raised = NoError
            /\ unit_out.text = IF valid THEN IsoFormat(y, d.month, d.day) ELSE NULL

\* C22: a date that names the era in kanji, with an era year or the kanji
\* for the first year, converts to the date its Latin spelling converts to.
C22_NativeScript ==
    (/\ unit_call.fn = "convert_japanese_date_to_iso"
     /\ unit_call.date.family = "native"
     /\ unit_out.done) =>
        LET d == unit_call.date
            latin == CASE d.era = "Meiji" -> <<"M">> [] d.era = "Taisho" -> <<"T">>
                       [] d.era = "Showa" -> <<"S">> [] d.era = "Heisei" -> <<"H">>
                       [] d.era = "Reiwa" -> <<"R">>
            year == IF d.gannen THEN <<"G", "a", "n", "n", "e", "n">> ELSE ZeroPad(d.era_year, 1)
        IN  /\ unit_out.raised = NoError
            /\ unit_out.text # NULL
            /\ unit_out.text = convert_japanese_date_to_iso(latin \o year \o <<".", "5", ".", "2">>)

\* C23: with the Gregorian year in parentheses behind the era year, with or
\* without the kanji for year inside them, the month and the day are the
\* numbers that follow, whatever separates them, and each is 1 when absent.
C23_ParentheticalYear ==
    (/\ unit_call.fn = "convert_japanese_date_to_iso"
     /\ unit_call.date.family = "aside"
     /\ unit_out.done) =>
        LET d == unit_call.date
        IN  /\ unit_out.raised = NoError
            /\ unit_out.text = IsoFormat(2018 + d.era_year, d.month, d.day)

\* C24: every approval id and brand name cell of the frame
\* normalize_approvals returns is the canonical form of the raw cell: null
\* for null, the empty string for the empty string, and for any other
\* string its NFKC form without the white space at its ends.
C24_CellCanonicalization ==
    (/\ Returns("normalize_approvals")
     /\ {ApprovalHeader.approval_id, ApprovalHeader.brand_name_jp} \subseteq unit_call.df.columns) =>
        /\ Len(unit_out.df.rows) = Len(unit_call.df.rows)
        /\ \A i \in 1..Len(unit_call.df.rows) :
              \A h \in {"approval_id", "brand_name_jp"} :
                  LET cell == unit_call.df.rows[i][ApprovalHeader[h]]
                  IN  unit_out.df.rows[i][ApprovalCol[h]] =
                          IF cell = NULL THEN NULL
                          ELSE IF cell = <<>> THEN <<>>
                          ELSE Strip(NFKC(cell))

\* C29: the frame jan_bridge_lookup returns has one row for every row of
\* the approvals frame it was given, whatever the reference frame holds.
C29_LookupCardinality ==
    Returns("jan_bridge_lookup") =>
        Len(unit_out.df.rows) = Len(unit_call.df.rows)

----------------------------------------------------------------------------
(* utils_scraping.py: fetch_url *)

\* what session.request can come to in one attempt: a response with a
\* status, or an exception
AttemptOutcomes ==
    {[kind |-> "response", status |-> st] : st \in {200, 404, 429, 500, 501, 502, 503, 504}}
    \cup {[kind |-> k, status |-> 0] :
            k \in {"ConnectionError", "Timeout", "ChunkedEncodingError", "HTTPError", "ValueError"}}

\* the exception an attempt raises: that of session.request, or the
\* HTTPError of response.raise_for_status() carrying the response
AttemptError(o) ==
    IF o.kind = "response"
    THEN IF o.status >= 400 /\ o.status < 600
         THEN [kind |-> "HTTPError", status |-> o.status]
         ELSE NoException
    ELSE o

\* a predicate that retries on every HTTPError that carries a response
_should_retry_any_status(exception) ==
    \/ exception.kind \in {"ConnectionError", "Timeout", "ChunkedEncodingError"}
    \/ exception.kind = "HTTPError" /\ exception.status # 0

_should_retry_error(exception) ==
    \/ exception.kind \in {"ConnectionError", "Timeout", "ChunkedEncodingError"}
    \/ /\ exception.kind = "HTTPError"
       /\ exception.status # 0
       /\ exception.status \in {429, 500, 502, 503, 504}

stop_after_attempt == 3

InitFetch ==
    /\ attempts = <<>>
    /\ fetch_out = [state |-> "calling", response |-> 0, error |-> NoException]
    /\ JaderOff
    /\ OrchestratorOff
    /\ UnitsOff
    /\ SourceOff

\* an attempt gives a response whose status is no error: fetch_url returns it
FetchReturns ==
    /\ fetch_out.state = "calling"
    /\ \E o \in AttemptOutcomes :
          /\ AttemptError(o) = NoException
          /\ attempts' = Append(attempts, o)
          /\ fetch_out' = [state |-> "returned", response |-> Len(attempts) + 1,
                           error |-> NoException]
    /\ UNCHANGED <<jvars, ovars, uvars, avars>>

\* an attempt raises, the predicate says retry and the stop condition does
\* not hold: tenacity waits and calls again
FetchRetries ==
    /\ fetch_out.state = "calling"
    /\ \E o \in AttemptOutcomes :
          /\ AttemptError(o) # NoException
          /\ _should_retry_error(AttemptError(o))
          /\ Len(attempts) + 1 < stop_after_attempt
          /\ attempts' = Append(attempts, o)
    /\ UNCHANGED fetch_out
    /\ UNCHANGED <<jvars, ovars, uvars, avars>>

\* an attempt raises and the predicate says no, or it was the last attempt
\* allowed: the exception is raised to the caller (reraise=True)
FetchRaises ==
    /\ fetch_out.state = "calling"
    /\ \E o \in AttemptOutcomes :
          /\ AttemptError(o) # NoException
          /\ \/ ~_should_retry_error(AttemptError(o))
             \/ Len(attempts) + 1 >= stop_after_attempt
          /\ attempts' = Append(attempts, o)
          /\ fetch_out' = [state |-> "raised", response |-> 0, error |-> AttemptError(o)]
    /\ UNCHANGED <<jvars, ovars, uvars, avars>>

NextFetch == FetchReturns \/ FetchRetries \/ FetchRaises

SpecFetch == InitFetch /\ [][NextFetch]_vars

----------------------------------------------------------------------------
(* sources/approvals.py: approvals_source *)

MaxSourceRuns == 2
MaxPageRows == 2

\* the rows of the listing, as the record the generator builds of each
PageRecords ==
    {[approval_no |-> n, brand |-> <<"A">>, date |-> <<"D", "1">>] :
        n \in {<<"1">>, <<"2">>, <<>>}}

\* hashlib.md5(raw).hexdigest(), kept as an injective image of raw
md5(raw) == <<"md5">> \o raw

\* the approval number, or the hash of brand and date when there is none
source_id(record) ==
    IF record.approval_no # <<>> THEN record.approval_no
    ELSE md5(record.brand \o <<"|">> \o record.date)

\* a test against the ids of the earlier runs only
IsSeenBefore(id) == \E i \in 1..Len(seen_ids) : seen_ids[i] = id

\* source_id in seen_ids_set
IsSeen(id) == id \in seen_ids_set

InitSource ==
    /\ seen_ids = <<>>
    /\ src_run = 0
    /\ src_pc = "idle"
    /\ page = <<>>
    /\ seen_ids_set = {}
    /\ new_ids = <<>>
    /\ handled = <<>>
    /\ completed = {}
    /\ JaderOff
    /\ OrchestratorOff
    /\ UnitsOff
    /\ FetchOff

\* a run begins: the generator reads the state and fetches the listing
StartRun ==
    /\ src_pc = "idle"
    /\ src_run < MaxSourceRuns
    /\ src_run' = src_run + 1
    /\ src_pc' = "running"
    /\ page' \in SeqsUpTo(PageRecords, MaxPageRows)
    /\ seen_ids_set' = {seen_ids[i] : i \in 1..Len(seen_ids)}
    /\ new_ids' = <<>>
    /\ UNCHANGED <<seen_ids, handled, completed>>
    /\ UNCHANGED <<jvars, ovars, uvars, svars>>

\* the generator reaches the next row: it skips a record whose id is in
\* seen_ids_set and yields any other
NextRecord ==
    /\ src_pc = "running"
    /\ page # <<>>
    /\ LET id == source_id(Head(page))
       IN  IF IsSeen(id)
           THEN /\ handled' = Append(handled, [run |-> src_run, id |-> id, out |-> "skip"])
                /\ UNCHANGED <<seen_ids_set, new_ids>>
           ELSE /\ seen_ids_set' = seen_ids_set \cup {id}
                /\ new_ids' = Append(new_ids, id)
                /\ handled' = Append(handled, [run |-> src_run, id |-> id, out |-> "yield"])
    /\ page' = Tail(page)
    /\ UNCHANGED <<seen_ids, src_run, src_pc, completed>>
    /\ UNCHANGED <<jvars, ovars, uvars, svars>>

\* the generator is exhausted: seen_ids is extended with new_ids
FinishRun ==
    /\ src_pc = "running"
    /\ page = <<>>
    /\ seen_ids' = IF new_ids # <<>> THEN seen_ids \o new_ids ELSE seen_ids
    /\ completed' = completed \cup {src_run}
    /\ src_pc' = "idle"
    /\ seen_ids_set' = {}
    /\ new_ids' = <<>>
    /\ UNCHANGED <<src_run, page, handled>>
    /\ UNCHANGED <<jvars, ovars, uvars, svars>>

\* the generator ends before it is exhausted: fetch_url or the reading of a
\* row raises (urljoin raises ValueError on a malformed href), or the
\* consumer closes it; the statement after the loop is not reached
AbandonRun ==
    /\ src_pc = "running"
    /\ src_pc' = "idle"
    /\ page' = <<>>
    /\ seen_ids_set' = {}
    /\ new_ids' = <<>>
    /\ UNCHANGED <<seen_ids, src_run, handled, completed>>
    /\ UNCHANGED <<jvars, ovars, uvars, svars>>

NextSource == StartRun \/ NextRecord \/ FinishRun \/ AbandonRun

SpecSource == InitSource /\ [][NextSource]_vars

----------------------------------------------------------------------------
(* Properties of fetch_url *)

\* C27, as the claim words it: at most 3 attempts; a further attempt only
\* after a transient failure; any other failure is raised after exactly one
\* attempt; the response of the first successful attempt is returned with no
\* attempt after it; after 3 transient failures the last error is raised.
C27_RetryProtocolOneAttempt ==
    LET n == Len(attempts)
        Transient(o) ==
            \/ o.kind \in {"ConnectionError", "Timeout", "ChunkedEncodingError"}
            \/ o.kind = "response" /\ o.status \in {429, 500, 502, 503, 504}
        Success(o) == o.kind = "response" /\ o.status = 200
    IN  /\ n <= 3
        /\ \A i \in 1..(n - 1) : Transient(attempts[i])
        /\ fetch_out.state = "calling" => (n < 3 /\ (n >= 1 => Transient(attempts[n])))
        /\ (n >= 1 /\ Success(attempts[n])) =>
              /\ fetch_out.state = "returned"
              /\ fetch_out.response = n
        /\ (n >= 1 /\ ~Success(attempts[n]) /\ ~Transient(attempts[n])) =>
              /\ fetch_out.state = "raised"
              /\ fetch_out.error = AttemptError(attempts[n])
              /\ n = 1
        /\ (n = 3 /\ Transient(attempts[n])) =>
              /\ fetch_out.state = "raised"
              /\ fetch_out.error = AttemptError(attempts[n])

\* C27: at most 3 attempts; a further attempt only after a transient
\* failure; any other failure is raised at the attempt it happens in, the
\* first, second or third, with no attempt after it; the response of the
\* first successful attempt is returned with no attempt after it; after 3
\* transient failures the last error is raised.
C27_RetryProtocol ==
    LET n == Len(attempts)
        Transient(o) ==
            \/ o.kind \in {"ConnectionError", "Timeout", "ChunkedEncodingError"}
            \/ o.kind = "response" /\ o.status \in {429, 500, 502, 503, 504}
        Success(o) == o.kind = "response" /\ o.status = 200
    IN  /\ n <= 3
        /\ \A i \in 1..(n - 1) : Transient(attempts[i])
        /\ fetch_out.state = "calling" => (n < 3 /\ (n >= 1 => Transient(attempts[n])))
        /\ (n >= 1 /\ Success(attempts[n])) =>
              /\ fetch_out.state = "returned"
              /\ fetch_out.response = n
        /\ (n >= 1 /\ ~Success(attempts[n]) /\ ~Transient(attempts[n])) =>
              /\ fetch_out.state = "raised"
              /\ fetch_out.error = AttemptError(attempts[n])
        /\ (n = 3 /\ Transient(attempts[n])) =>
              /\ fetch_out.state = "raised"
              /\ fetch_out.error = AttemptError(attempts[n])

\* two transient failures, a 500 and a connection error, then a response
\* with status 200: the third attempt's response was returned
C27_Witness ==
    /\ Len(attempts) = 3
    /\ attempts[1] = [kind |-> "response", status |-> 500]
    /\ attempts[2] = [kind |-> "ConnectionError", status |-> 0]
    /\ attempts[3] = [kind |-> "response", status |-> 200]
    /\ fetch_out = [state |-> "returned", response |-> 3, error |-> NoException]

----------------------------------------------------------------------------
(* Properties of approvals_source *)

\* C28, as the claim words it: over any sequence of runs no source id is
\* yielded twice; between runs the list seen_ids holds every id ever
\* yielded; the list never holds an id twice.
C28_EmittedOnceEver ==
    LET Yields == {i \in 1..Len(handled) : handled[i].out = "yield"}
    IN  /\ \A i, j \in Yields : handled[i].id = handled[j].id => i = j
        /\ src_pc = "idle" =>
              \A i \in Yields : \E k \in 1..Len(seen_ids) : seen_ids[k] = handled[i].id
        /\ \A k, l \in 1..Len(seen_ids) : seen_ids[k] = seen_ids[l] => k = l

\* C28: a record is skipped exactly when its id was yielded earlier in the
\* same run or in an earlier run that completed; between runs the list
\* seen_ids holds exactly the ids the completed runs yielded; the list never
\* holds an id twice.
C28_EmittedOncePerCompletedRun ==
    LET Yields == {i \in 1..Len(handled) : handled[i].out = "yield"}
        YieldedBefore(j) ==
            \E i \in Yields :
                /\ i < j
                /\ handled[i].id = handled[j].id
                /\ handled[i].run = handled[j].run \/ handled[i].run \in completed
    IN  /\ \A j \in 1..Len(handled) : handled[j].out = "skip" <=> YieldedBefore(j)
        /\ src_pc = "idle" =>
              {seen_ids[k] : k \in 1..Len(seen_ids)}
                  = {handled[i].id : i \in {y \in Yields : handled[y].run \in completed}}
        /\ \A k, l \in 1..Len(seen_ids) : seen_ids[k] = seen_ids[l] => k = l

\* the first run yielded id 1, skipped a second record of id 1 and
\* completed; the second run skipped id 1, yielded id 2 and completed
C28_Witness ==
    /\ src_run = 2
    /\ src_pc = "idle"
    /\ completed = {1, 2}
    /\ handled = << [run |-> 1, id |-> <<"1">>, out |-> "yield"],
                    [run |-> 1, id |-> <<"1">>, out |-> "skip"],
                    [run |-> 2, id |-> <<"1">>, out |-> "skip"],
                    [run |-> 2, id |-> <<"2">>, out |-> "yield"] >>
    /\ seen_ids = << <<"1">>, <<"2">> >>

====
